---- MODULE Spec2Model ----
(***************************************************************************)
(* Model of the cursor subsystem of schema-ui: the agent-backed            *)
(* EndpointCursor (paging state machine, events, all(), search, setters)   *)
(* and the generic pagination-info extractor it feeds responses through.   *)
(***************************************************************************)
EXTENDS Integers, Sequences, FiniteSets, TLC

(***************************************************************************)
(* JSON values.  Every value carries its type tag, so that null, numbers,  *)
(* strings, arrays and objects can be told apart the way the code's        *)
(* lodash predicates tell them apart.  `undefined` and `null` are both     *)
(* Null: the code only ever tests them with `!= null`, `||`, `!!` and      *)
(* _.isFinite / _.isArray / _.isEmpty, which do not distinguish them.      *)
(* An object is the sequence of its <<key, value>> pairs in insertion      *)
(* order (the order _.findKey enumerates).                                 *)
(***************************************************************************)
Null == [t |-> "null"]
Num(n) == [t |-> "num", n |-> n]
Str(s) == [t |-> "str", s |-> s]
Arr(a) == [t |-> "arr", a |-> a]
\* A string whose characters the code inspects: the sequence of its characters.
Txt(c) == [t |-> "txt", c |-> c]
Obj(o) == [t |-> "obj", o |-> o]

\* A number handed in by a caller: n, or n + 1/2 when frac (a non-integer).
Whole(n) == [n |-> n, frac |-> FALSE]
Half(n) == [n |-> n, frac |-> TRUE]

\* _.isInteger(value)
isInteger(x) == ~x.frac

\* _.isFinite(value)
isFinite(v) == v.t = "num"

\* _.isArray(value)
isArray(v) == v.t = "arr"

\* _.isEmpty(value): null/undefined, numbers, "" and collections without entries
isEmpty(v) ==
    CASE v.t = "null" -> TRUE
      [] v.t = "num" -> TRUE
      [] v.t = "str" -> v.s = ""
      [] v.t = "txt" -> Len(v.c) = 0
      [] v.t = "arr" -> Len(v.a) = 0
      [] v.t = "obj" -> Len(v.o) = 0

\* JavaScript's ToNumber on the values a comparison with a page number meets.
ToNumber(v) == IF v.t = "num" THEN v.n ELSE 0

\* _.snakeCase(key) on the keys the cursor uses
snakeCase(k) ==
    CASE k = "totalCount" -> "total_count"
      [] k = "itemCount" -> "item_count"
      [] k = "numPages" -> "num_pages"
      [] k = "pageNumber" -> "page_number"
      [] k = "perPage" -> "per_page"
      [] OTHER -> k

\* _.kebabCase(key) on the keys the cursor uses
kebabCase(k) ==
    CASE k = "totalCount" -> "total-count"
      [] k = "itemCount" -> "item-count"
      [] k = "numPages" -> "num-pages"
      [] k = "pageNumber" -> "page-number"
      [] k = "perPage" -> "per-page"
      [] OTHER -> k

\* String.prototype.toLowerCase on the body keys of the modelled responses
toLowerCase(k) ==
    CASE k = "Meta" -> "meta"
      [] k = "Pagination" -> "pagination"
      [] OTHER -> k

paginationPageLimitProperties == <<"limit", "perPage">>
paginationPageProperties == <<"index", "page", "pageNumber">>
paginationPageCountProperties == <<"pages", "numPages", "length", "size">>
paginationCollectionCountProperties == <<"totalCount", "itemCount">>
paginationPageItemsProperties == <<"items", "data", "collection">>
paginationMetaKeys == <<"pagination", "meta">>

Range(s) == {s[i] : i \in 1..Len(s)}

\* data[key]: a property read.  Reading a property of null/undefined throws
\* (see ReadThrows); an absent property reads as undefined.
HasKey(data, k) == data.t = "obj" /\ \E i \in 1..Len(data.o) : data.o[i][1] = k
Get(data, k) ==
    IF HasKey(data, k)
    THEN data.o[CHOOSE i \in 1..Len(data.o) : data.o[i][1] = k][2]
    ELSE IF data.t = "arr" /\ k = "length" THEN Num(Len(data.a))
    ELSE Null
ReadThrows(data) == data.t = "null"

\* validator(item), for the two validators the extractor passes to checkDataKey.
validates(validator, item) ==
    IF validator = "isFinite" THEN isFinite(item) ELSE isArray(item)

\* checkDataKey: the loop runs over the key, its snake_case and its kebab-case
\* form, and reads data[key] on every pass.
checkDataKey(validator, data, key) ==
    LET testables == <<key, snakeCase(key), kebabCase(key)>>
        hit(testable) == Get(data, key) # Null /\ validates(validator, Get(data, key))
    IN  IF \E i \in 1..Len(testables) : hit(testables[i])
        THEN Get(data, key)
        ELSE Null

\* One `for (let key of keys) { if (_.isFinite(field)) break; field = checkDataKey(..) }`
probeKeys(validator, data, keys, start) ==
    LET acc[i \in 0..Len(keys)] ==
            IF i = 0 THEN start
            ELSE IF isFinite(acc[i - 1]) THEN acc[i - 1]
            ELSE checkDataKey(validator, data, keys[i])
    IN  acc[Len(keys)]

\* genericPaginationInfoKeyExtractor(partial, data), for data that can be read
genericPaginationInfoKeyExtractor(partial, data) ==
    [count |-> probeKeys("isFinite", data, paginationCollectionCountProperties, partial.count),
     totalPages |-> probeKeys("isFinite", data, paginationPageCountProperties, partial.totalPages),
     items |-> probeKeys("isArray", data, paginationPageItemsProperties, partial.items)]

\* _.findKey(response.body, (v, k) => _.includes(paginationMetaKeys, k.toLowerCase())):
\* the index of the first such key, 0 when there is none
findMetaKey(body) ==
    IF body.t # "obj" THEN 0
    ELSE LET hits == {i \in 1..Len(body.o) : toLowerCase(body.o[i][1]) \in Range(paginationMetaKeys)}
         IN  IF hits = {} THEN 0 ELSE CHOOSE i \in hits : \A j \in hits : i <= j

EmptyPartial == [count |-> Null, totalPages |-> Null, items |-> Null]

\* `if (cond) result = genericPaginationInfoKeyExtractor(result, data)`
extractWhen(cond, partial, data) ==
    IF cond THEN genericPaginationInfoKeyExtractor(partial, data) ELSE partial

\* response.body[usable], for the key index findMetaKey found
nestedBody(body, usable) == IF usable = 0 THEN Null ELSE body.o[usable][2]

\* The three sources in the order the extractor searches them: the body, the
\* headers when not empty, the body's pagination/meta object when there is one.
extractSources(body, headers, usable) ==
    extractWhen(usable # 0,
                extractWhen(~isEmpty(headers),
                            extractWhen(TRUE, EmptyPartial, body),
                            headers),
                nestedBody(body, usable))

\* genericPaginationInfoExtractor(response): [threw, info]; it throws on the
\* first source that cannot be read.
genericPaginationInfoExtractor(response) ==
    IF ReadThrows(response.body)
       \/ (findMetaKey(response.body) # 0
           /\ ReadThrows(nestedBody(response.body, findMetaKey(response.body))))
    THEN [threw |-> TRUE, info |-> EmptyPartial]
    ELSE [threw |-> FALSE,
          info |-> extractSources(response.body, response.headers, findMetaKey(response.body))]

searchTermProperty == "search"

\* genericPaginationRequestGenerator(page, limit): the urlData dictionary
genericPaginationRequestGenerator(page, lim) ==
    LET variations(keys) == UNION {{keys[i], snakeCase(keys[i]), kebabCase(keys[i])} : i \in 1..Len(keys)}
        pageKeys == variations(paginationPageProperties)
        limitKeys == variations(paginationPageLimitProperties)
    IN  [k \in pageKeys \cup limitKeys |-> IF k \in limitKeys THEN Num(lim) ELSE Num(page)]

(***************************************************************************)
(* The filter engine of the ValueCursor.                                   *)
(***************************************************************************)
\* String(n) for the numbers the model uses (0..99)
Digits == <<"0", "1", "2", "3", "4", "5", "6", "7", "8", "9">>
DigitsOf(n) ==
    IF n < 10 THEN <<Digits[n + 1]>> ELSE <<Digits[(n \div 10) + 1], Digits[(n % 10) + 1]>>

\* Array.prototype.join(","), each element already a string; null joins as ""
JoinComma(strings) ==
    LET acc[i \in 0..Len(strings)] ==
            IF i = 0 THEN <<>>
            ELSE IF i = 1 THEN strings[1]
            ELSE acc[i - 1] \o <<",">> \o strings[i]
    IN  acc[Len(strings)]

\* String(value): the characters of the string form of a value
StringOfScalar(v) ==
    CASE v.t = "num" -> DigitsOf(v.n)
      [] v.t = "txt" -> v.c
      [] v.t = "null" -> <<"n", "u", "l", "l">>
      [] OTHER -> <<"[", "o", "b", "j", "e", "c", "t", " ", "O", "b", "j", "e", "c", "t", "]">>
StringOf(v) ==
    IF v.t = "arr"
    THEN JoinComma([i \in 1..Len(v.a) |->
                       IF v.a[i].t = "null" THEN <<>> ELSE StringOfScalar(v.a[i])])
    ELSE StringOfScalar(v)

\* hay.indexOf(needle) >= 0
Contains(hay, needle) ==
    \E i \in 0..(Len(hay) - Len(needle)) :
        \A j \in 1..Len(needle) : hay[i + j] = needle[j]

\* ToNumber(value) as a relational comparison applies it: [nan, n]
NumberOfChars(c) ==
    LET digit(ch) == CHOOSE d \in 0..9 : Digits[d + 1] = ch
        acc[i \in 0..Len(c)] == IF i = 0 THEN 0 ELSE acc[i - 1] * 10 + digit(c[i])
    IN  IF \A i \in 1..Len(c) : c[i] \in Range(Digits)
        THEN [nan |-> FALSE, n |-> acc[Len(c)]]
        ELSE [nan |-> TRUE, n |-> 0]
NumberOf(v) ==
    CASE v.t = "num" -> [nan |-> FALSE, n |-> v.n]
      [] v.t = "null" -> [nan |-> FALSE, n |-> 0]
      [] OTHER -> NumberOfChars(StringOf(v))

\* a < b, a <= b, a > b, a >= b for a number a and any value b
Compares(op, a, b) ==
    LET nb == NumberOf(b)
    IN  /\ ~nb.nan
        /\ CASE op = "LessThan" -> a < nb.n
             [] op = "LessThanOrEquals" -> a <= nb.n
             [] op = "GreaterThan" -> a > nb.n
             [] op = "GreaterThanOrEquals" -> a >= nb.n

\* _.includes(array, value): SameValueZero, so an array or object in the
\* list is found only by identity, which a value read from an element of the
\* collection never has with a member of the filter's list
includes(array, val) ==
    /\ val.t \in {"num", "txt", "null"}
    /\ \E i \in 1..Len(array.a) : array.a[i] = val

\* val.length
LengthOfStringsOnly(val) == IF val.t = "txt" THEN Len(val.c) ELSE 0
LengthOf(val) == IF val.t = "txt" THEN Len(val.c) ELSE Len(val.a)

\* applyFilter(filter, val); an operator the switch does not know yields
\* undefined, which _.every takes as false
applyFilter(filter, val) ==
    CASE filter.operator = "Contains" -> Contains(StringOf(val), StringOf(filter.value))
      [] filter.operator = "NotContains" -> ~Contains(StringOf(val), StringOf(filter.value))
      [] filter.operator = "Equals" -> StringOf(val) = StringOf(filter.value)
      [] filter.operator = "NotEquals" -> StringOf(val) # StringOf(filter.value)
      [] filter.operator \in {"LessThan", "LessThanOrEquals",
                              "GreaterThan", "GreaterThanOrEquals"} ->
            IF val.t = "num" THEN Compares(filter.operator, val.n, filter.value)
            ELSE IF val.t \in {"txt", "arr"}
            THEN Compares(filter.operator, LengthOf(val), filter.value)
            ELSE FALSE
      [] filter.operator = "In" ->
            IF isArray(filter.value) THEN includes(filter.value, val)
            ELSE StringOf(val) = StringOf(filter.value)
      [] filter.operator = "NotIn" ->
            IF isArray(filter.value) THEN ~includes(filter.value, val)
            ELSE StringOf(val) = StringOf(filter.value)
      [] OTHER -> FALSE

\* pointer.parse(path): the reference tokens of a JSON pointer, for the paths
\* of the model (written without their leading "/")
Tokens(path) == IF path = "Meta/Size" THEN <<"Meta", "Size">> ELSE <<path>>

\* pointer.get(x, path): [threw, value]; it follows the reference tokens and
\* throws at the first one the value reached does not hold
RECURSIVE pointerWalk(_, _, _)
pointerWalk(x, tokens, k) ==
    IF k > Len(tokens) THEN [threw |-> FALSE, value |-> x]
    ELSE IF ~(HasKey(x, tokens[k]) \/ (x.t = "arr" /\ tokens[k] = "length"))
    THEN [threw |-> TRUE, value |-> Null]
    ELSE pointerWalk(Get(x, tokens[k]), tokens, k + 1)
pointerGet(x, path) == pointerWalk(x, Tokens(path), 1)
pointerThrows(x, path) == pointerGet(x, path).threw

\* The predicate of filterCollectionBy on element x:
\* _.every(filters, f => applyFilter(f, pointer.get(x, f.path))), which stops
\* at the first filter that fails: [threw, keep]
everyFilter(filters, x) ==
    LET acc[i \in 0..Len(filters)] ==
            IF i = 0 THEN [threw |-> FALSE, keep |-> TRUE]
            ELSE IF acc[i - 1].threw \/ ~acc[i - 1].keep THEN acc[i - 1]
            ELSE IF pointerThrows(x, filters[i].path)
            THEN [threw |-> TRUE, keep |-> FALSE]
            ELSE [threw |-> FALSE,
                  keep |-> applyFilter(filters[i], pointerGet(x, filters[i].path).value)]
    IN  acc[Len(filters)]

\* filterCollectionBy(collection, filters): [threw, items]; _.filter visits
\* the elements in order and the first throw ends it
filterCollectionBy(collection, filters) ==
    LET acc[i \in 0..Len(collection)] ==
            IF i = 0 THEN [threw |-> FALSE, items |-> <<>>]
            ELSE IF acc[i - 1].threw THEN acc[i - 1]
            ELSE LET e == everyFilter(filters, collection[i])
                 IN  IF e.threw THEN [threw |-> TRUE, items |-> <<>>]
                     ELSE IF e.keep
                     THEN [threw |-> FALSE, items |-> Append(acc[i - 1].items, collection[i])]
                     ELSE acc[i - 1]
    IN  acc[Len(collection)]

(***************************************************************************)
(* The sort engine of the ValueCursor.                                     *)
(***************************************************************************)
\* The characters of the model in the order of their code units.
CodeOrder ==
    <<" ", ",", "0", "1", "2", "3", "4", "5", "6", "7", "8", "9", "O", "[", "]",
      "a", "b", "c", "d", "e", "f", "i", "j", "l", "n", "o", "t", "u">>
CodeOf(ch) == CHOOSE i \in 1..Len(CodeOrder) : CodeOrder[i] = ch

\* a < b for two strings: by code units, a proper prefix first
StringLess(a, b) ==
    \E i \in 1..(Len(b)) :
        /\ \A j \in 1..(i - 1) : j <= Len(a) /\ a[j] = b[j]
        /\ (i > Len(a) \/ (i <= Len(a) /\ CodeOf(a[i]) < CodeOf(b[i])))
        /\ i - 1 <= Len(a)

\* a < b of JavaScript for two defined values: two strings (or values whose
\* primitive is a string) compare by code units, anything else as numbers
Less(a, b) ==
    IF a.t \in {"txt", "arr", "obj"} /\ b.t \in {"txt", "arr", "obj"}
    THEN StringLess(StringOf(a), StringOf(b))
    ELSE LET na == NumberOf(a)
             nb == NumberOf(b)
         IN  ~na.nan /\ ~nb.nan /\ na.n < nb.n

\* lodash's compareAscending(value, other): -1, 0 or 1; a missing value
\* sorts after every defined one
compareAscending(value, other) ==
    IF value = other THEN 0
    ELSE IF value.t = "null" THEN 1
    ELSE IF other.t = "null" THEN 0 - 1
    ELSE IF Less(other, value) THEN 1
    ELSE IF Less(value, other) THEN 0 - 1
    ELSE 0

\* The sort criteria of element x: for each sorter the property of x whose
\* key is the sorter's path with its leading "/" trimmed.  _.orderBy takes the
\* trimmed path as a lodash property path: a string without "." or "[" is one
\* key, "/" included, and reads as undefined when x does not hold that key.
\* Without sorters _.orderBy sorts by the element itself (iteratees =
\* [identity]).
criteriaOf(x, sorters) ==
    IF Len(sorters) = 0 THEN <<x>>
    ELSE [k \in 1..Len(sorters) |->
            IF HasKey(x, sorters[k].path) THEN Get(x, sorters[k].path) ELSE Null]

\* lodash's compareMultiple on two elements and their indices: the first
\* criterion that differs decides, reversed when its order is
\* ['asc', 'desc'][direction] = 'desc'; equal criteria keep the index order
compareMultiple(ca, cb, sorters, ia, ib) ==
    LET differs == {k \in 1..Len(ca) : compareAscending(ca[k], cb[k]) # 0}
        k == CHOOSE d \in differs : \A e \in differs : d <= e
    IN  IF differs = {} THEN ia - ib
        ELSE IF k <= Len(sorters) /\ sorters[k].direction = 1
        THEN 0 - compareAscending(ca[k], cb[k])
        ELSE compareAscending(ca[k], cb[k])

\* sortCollectionBy(collection, sorters) = _.orderBy(collection, paths, orders):
\* a new sequence, the elements inserted one by one in comparison order
sortCollectionBy(collection, sorters) ==
    LET crit(i) == criteriaOf(collection[i], sorters)
        before(i, j) == compareMultiple(crit(i), crit(j), sorters, i, j) < 0
        acc[n \in 0..Len(collection)] ==
            IF n = 0 THEN <<>>
            ELSE LET prev == acc[n - 1]
                     pos == Cardinality({m \in 1..Len(prev) : before(prev[m], n)})
                 IN  SubSeq(prev, 1, pos) \o <<n>> \o SubSeq(prev, pos + 1, Len(prev))
    IN  [m \in 1..Len(collection) |-> collection[acc[Len(collection)][m]]]

(***************************************************************************)
(* Bounds of the model.                                                    *)
(***************************************************************************)
\* Caller operations per behaviour.
MaxCalls == 2
\* Elements of the remote collection.
CollectionSize == 3
\* Caller operations on a ValueCursor per behaviour.
MaxValueCalls == 3

\* private _limit: number = 40
DefaultLimit == 40

\* SortingDirection, as sortCollectionBy indexes ['asc', 'desc'] with it.
Ascending == 0
Descending == 1

\* CursorLoadingState, as the cursors compare it (Uninitialized < Loading < Ready)
Uninitialized == 0
Loading == 1
Ready == 2
Empty == 3

(***************************************************************************)
(* The remote side: a collection served page by page through the agent.    *)
(***************************************************************************)
Collection == [i \in 1..CollectionSize |-> Num(i)]

Min(a, b) == IF a < b THEN a ELSE b

\* The items of page p when pages hold lim items.
PageItems(p, lim) ==
    LET from == (p - 1) * lim + 1
        to == Min(p * lim, Len(Collection))
    IN  IF from > to THEN <<>> ELSE SubSeq(Collection, from, to)

\* Number of pages when pages hold lim items.
PageCount(lim) == (Len(Collection) + lim - 1) \div lim

\* The conventions a served API may follow for a page response.
Conventions == {"collection", "results"}

\* What the agent answers to a request under a convention.
\*   "collection": {collection: [...], pages: P, totalCount: N}, no headers
\*   "results":    {results: [...], total: N}, no headers: none of the keys
\*                 the extractor knows
\*   outcome "nobody": a response without a body (body null)
ResponseTo(req, convention, outcome) ==
    LET p == req.urlData["page"].n
        lim == req.urlData["limit"].n
        its == Arr(PageItems(p, lim))
    IN  IF outcome = "nobody" THEN [body |-> Null, headers |-> Null]
        ELSE IF convention = "collection"
        THEN [body |-> Obj(<< <<"collection", its>>,
                              <<"pages", Num(PageCount(lim))>>,
                              <<"totalCount", Num(Len(Collection))>> >>),
              headers |-> Obj(<<>>)]
        ELSE [body |-> Obj(<< <<"results", its>>,
                              <<"total", Num(Len(Collection))>> >>),
              headers |-> Obj(<<>>)]

(***************************************************************************)
(* State of one EndpointCursor and of its environment.                     *)
(***************************************************************************)
VARIABLES
    limit,          \* _limit
    current,        \* _current
    count,          \* _count
    totalPages,     \* _totalPages
    items,          \* _items
    terms,          \* _terms
    loadingState,   \* loadingState
    autoReload,     \* autoReload
    linkName,       \* constructor argument linkName
    schemaLinks,    \* the link relations agent.schema exposes
    convention,     \* the convention of the served API
    attempts,       \* every select that reached agent.execute: its request, the
                    \* events emitted for it, in order, and its promise
    allOp,          \* the all() call, its first-page promise and page promises
    calls,          \* number of caller operations so far
    lastOp,         \* the last caller operation and its arguments
    ret,            \* what the last caller operation returned
    normResponse,   \* the response handed to the pagination extractor on its own
    normInfo        \* what the extractor made of it

cursorVars == <<limit, current, count, totalPages, items, terms, loadingState, autoReload>>
configVars == <<linkName, schemaLinks, convention>>
\* State of one ValueCursor and of its caller.
VARIABLES
    wrapped,            \* _wrapped, the backing sequence
    vLimit,             \* _limit
    vCurrent,           \* _current
    vCount,             \* _count
    vTotalPages,        \* _totalPages
    vItems,             \* _items
    vTerms,             \* _terms
    columns,            \* _columns
    filters,            \* _filters
    sorters,            \* _sorters
    vLoadingState,      \* loadingState
    isSearchApplied,    \* isSearchApplied
    areFiltersApplied,  \* areFiltersApplied
    areSortersApplied,  \* areSortersApplied
    vAutoReload,        \* autoReload
    givenFilters,       \* an array the caller passed to filterBy, as it is now
    givenSorters,       \* an array the caller passed to sortBy, as it is now
    vCalls,             \* number of caller operations so far
    vLastOp,            \* the last caller operation and its arguments
    vRet                \* what it returned, or that it threw
\* One application of a function of the filter/sort engine.
VARIABLES
    engineCall,         \* the function applied and its arguments
    engineResult        \* what it returned, or that it threw

endpointVars == <<limit, current, count, totalPages, items, terms, loadingState, autoReload,
                  linkName, schemaLinks, convention, attempts, allOp, calls, lastOp, ret>>
normVars == <<normResponse, normInfo>>
\* What the operations of the EndpointCursor leave alone.
valueVars == <<wrapped, vLimit, vCurrent, vCount, vTotalPages, vItems, vTerms, columns,
               filters, sorters, vLoadingState, isSearchApplied, areFiltersApplied,
               areSortersApplied, vAutoReload, givenFilters, givenSorters, vCalls, vLastOp,
               vRet>>
engineVars == <<engineCall, engineResult>>
besidesEndpoint == <<normVars, valueVars, engineVars>>
\* What the operations of the ValueCursor leave alone.
besidesValue == <<endpointVars, normVars, engineVars>>
vars == <<endpointVars, normVars, valueVars, engineVars>>

\* Promises.
Pending == [s |-> "pending"]
Resolved(v) == [s |-> "resolved", v |-> v]
Rejected(e) == [s |-> "rejected", e |-> e]
\* The promise select returns for the request it issued as attempt id.
OfAttempt(id) == [s |-> "attempt", id |-> id]
\* The promise all() builds on once('afterPageChange').
OnAfterPageChange == [s |-> "event"]
NoPromise == [s |-> "none"]

PromiseState(att, p) ==
    IF p.s = "attempt" THEN att[p.id].promise
    ELSE IF p.s = "event" THEN Pending
    ELSE p

InvalidPage == Str("Pagenumber has to be an integer of 1 or higher.")
NoLink == Str("Unable to find a link for this cursor to fetch any pages.")
LastPage == Str("This the last page!")
FirstPage == Str("This the first page!")
NetworkError == Str("request failed")
TypeError == Str("TypeError: Cannot read property of null")
ListenerError == Str("listener threw")

\* agent.schema.getLink(name)
getLink(links, name) == IF name \in links THEN Str(name) ELSE Null

\* agent.schema.getFirstLink(names)
getFirstLink(links, names) ==
    LET hits == {i \in 1..Len(names) : names[i] \in links}
    IN  IF hits = {} THEN Null ELSE Str(names[CHOOSE i \in hits : \A j \in hits : i <= j])

\* The cursor fields select reads.
Self == [limit |-> limit, current |-> current, items |-> items, terms |-> terms,
         linkName |-> linkName, schemaLinks |-> schemaLinks]

\* A link lookup that ignores the configured link name.
linkOfAnyName(self) == getFirstLink(self.schemaLinks, <<"list", "collection", "index">>)

\* The link select requests pages from; Null when the schema has none.
linkOf(self) ==
    IF self.linkName.t = "str"
    THEN getLink(self.schemaLinks, self.linkName.s)
    ELSE getFirstLink(self.schemaLinks, <<"list", "collection", "index">>)

\* A select that always reloads: the test of the page against current is lost.
isCurrentPageNever(self, page, forceReload) == FALSE

\* `page === this.current && !forceReload`
isCurrentPage(self, page, forceReload) == page.n = self.current /\ ~forceReload

\* The synchronous part of select(page, forceReload) on cursor `self`: the
\* attempts afterwards and the promise returned.  beforePageChange is emitted
\* right before agent.execute is called.
select(self, page, forceReload, att) ==
    LET link == linkOf(self)
        generated == genericPaginationRequestGenerator(page.n, self.limit)
        urlData == IF ~isEmpty(self.terms)
                   THEN [k \in DOMAIN generated \cup {searchTermProperty} |->
                            IF k = searchTermProperty THEN self.terms ELSE generated[k]]
                   ELSE generated
        id == Len(att) + 1
    IN  IF ~isInteger(page) \/ page.n < 1
        THEN [attempts |-> att, promise |-> Rejected(InvalidPage)]
        ELSE IF isCurrentPage(self, page, forceReload)
        THEN [attempts |-> att, promise |-> Resolved(self.items)]
        ELSE IF link = Null
        THEN [attempts |-> att, promise |-> Rejected(NoLink)]
        ELSE [attempts |-> Append(att, [link |-> link, urlData |-> urlData, page |-> page.n,
                                        events |-> <<[name |-> "beforePageChange",
                                                      payload |-> [page |-> page.n,
                                                                   items |-> Null]]>>,
                                        landed |-> FALSE, promise |-> Pending]),
              promise |-> OfAttempt(id)]

\* A hasNext() that is off by one: the last page still has a next page.
hasNextInclusive == current <= ToNumber(totalPages)

\* hasPrevious() / hasNext(); a null totalPages compares as 0
hasPrevious == current > 1
hasNext == current < ToNumber(totalPages)

\* `info.items || []`
orEmpty(v) == IF v.t = "null" THEN Arr(<<>>) ELSE v

\* A .then handler in which the first loaded page wins: items, totalPages and
\* count are kept once a page has been loaded.
applyInfoFirstWins(self, page, ex, listenerThrows) ==
    LET newItems == IF self.items # Arr(<<>>) THEN self.items ELSE orEmpty(ex.info.items)
        after == [name |-> "afterPageChange",
                  payload |-> [page |-> page, items |-> newItems]]
    IN  [current |-> page, items |-> newItems, totalPages |-> self.totalPages,
         count |-> self.count,
         events |-> IF ex.threw \/ listenerThrows
                    THEN <<[name |-> "error", payload |-> TypeError]>>
                    ELSE <<after>>,
         promise |-> IF ex.threw \/ listenerThrows
                     THEN Rejected(TypeError)
                     ELSE Resolved(newItems),
         heard |-> ~(ex.threw \/ listenerThrows)]

\* The .then / .catch handlers of select for attempt id when the agent's
\* promise resolved with `response` (onResponse), given what the extractor
\* made of the response (applyInfo); listenerThrows: an afterPageChange
\* listener of the caller throws.  Yields the cursor fields, the events, the
\* emitted, the settled select promise and whether afterPageChange reached
\* all()'s listener.
applyInfo(self, page, ex, listenerThrows) ==
    LET newItems == orEmpty(ex.info.items)
        after == [name |-> "afterPageChange",
                  payload |-> [page |-> page, items |-> newItems]]
    IN  IF ex.threw
        THEN [current |-> page, items |-> self.items, totalPages |-> self.totalPages,
              count |-> self.count,
              events |-> <<[name |-> "error", payload |-> TypeError]>>,
              promise |-> Rejected(TypeError), heard |-> FALSE]
        ELSE [current |-> page, items |-> newItems, totalPages |-> ex.info.totalPages,
              count |-> ex.info.count,
              events |-> IF listenerThrows
                         THEN <<after, [name |-> "error", payload |-> ListenerError]>>
                         ELSE <<after>>,
              promise |-> IF listenerThrows THEN Rejected(ListenerError)
                          ELSE Resolved(ex.info.items),
              heard |-> ~listenerThrows]

onResponse(self, page, response, listenerThrows) ==
    applyInfo(self, page, genericPaginationInfoExtractor(response), listenerThrows)

\* The .catch handler of select for attempt id when the agent's promise rejected.
onFailure(err) ==
    [events |-> <<[name |-> "error", payload |-> err]>>,
     promise |-> Rejected(err)]

\* _.flatten(result) over the values the page promises resolved with
flatten(values) ==
    LET acc[i \in 0..Len(values)] ==
            IF i = 0 THEN <<>>
            ELSE IF isArray(values[i]) THEN acc[i - 1] \o values[i].a
            ELSE Append(acc[i - 1], values[i])
    IN  acc[Len(values)]

\* The loop of all(): promises = [Promise.resolve(this.items)], then
\* select(i) for i = 2 .. totalPages.
selectPages(self, pages, att) ==
    LET last == IF ToNumber(pages) < 1 THEN 1 ELSE ToNumber(pages)
        acc[i \in 1..last] ==
            IF i = 1 THEN [attempts |-> att, promises |-> <<Resolved(self.items)>>]
            ELSE LET r == select(self, Whole(i), FALSE, acc[i - 1].attempts)
                 IN  [attempts |-> r.attempts,
                      promises |-> Append(acc[i - 1].promises, r.promise)]
    IN  acc[last]

\* fresh: no request had been issued when all() was called.
NoAll == [pc |-> "none", fresh |-> FALSE, first |-> NoPromise, promises |-> <<>>,
          result |-> NoPromise]

\* No ValueCursor: the value-cursor state while another component is exercised.
NoCall == [id |-> 0, name |-> "none", arg |-> Null]
\* The caller has passed no array, and shares none with the cursor.
NoArray == [array |-> <<>>, shared |-> FALSE]
ValueUnused ==
    /\ wrapped = <<>>
    /\ vLimit = DefaultLimit
    /\ vCurrent = Whole(1)
    /\ vCount = 0
    /\ vTotalPages = 1
    /\ vItems = <<>>
    /\ vTerms = Null
    /\ columns = <<>>
    /\ filters = <<>>
    /\ sorters = <<>>
    /\ vLoadingState = Uninitialized
    /\ isSearchApplied = TRUE
    /\ areFiltersApplied = TRUE
    /\ areSortersApplied = TRUE
    /\ vAutoReload = FALSE
    /\ givenFilters = NoArray
    /\ givenSorters = NoArray
    /\ vCalls = 0
    /\ vLastOp = NoCall
    /\ vRet = NoPromise

\* The extractor used on its own: nothing handed to it, nothing returned yet.
NoResponse == [body |-> Null, headers |-> Null]
NoInfo == [threw |-> FALSE, info |-> Null]

\* The filter/sort engine not applied on its own.
NoApplication == [fn |-> "none"]
NoResult == [threw |-> FALSE, returned |-> FALSE]
EngineUnused == engineCall = NoApplication /\ engineResult = NoResult

(***************************************************************************)
(* Construction.                                                           *)
(***************************************************************************)
LinkConfigs ==
    {[linkName |-> Str("items"), schemaLinks |-> {"items"}],
     [linkName |-> Null, schemaLinks |-> {"collection", "index"}],
     [linkName |-> Str("items"), schemaLinks |-> {"list"}],
     [linkName |-> Null, schemaLinks |-> {"self"}]}
LimitArgs == {Null, Whole(2)}
InitialPageArgs == {Null, Whole(1), Whole(2)}

\* new EndpointCursor(agent, linkName, initialPage, limit)
Init ==
    \E cfg \in LinkConfigs, conv \in Conventions, lim \in LimitArgs, ip \in InitialPageArgs :
        LET l == IF lim # Null /\ lim.n >= 1 THEN lim.n ELSE DefaultLimit
            self == [limit |-> l, current |-> 1, items |-> Arr(<<>>), terms |-> Null,
                     linkName |-> cfg.linkName, schemaLinks |-> cfg.schemaLinks]
        IN  \E r \in {IF ip # Null /\ ip.n >= 1
                      THEN select(self, ip, FALSE, <<>>)
                      ELSE [attempts |-> <<>>, promise |-> NoPromise]} :
            /\ limit = l
            /\ current = 1
            /\ count = Num(0)
            /\ totalPages = Num(1)
            /\ items = Arr(<<>>)
            /\ terms = Null
            /\ loadingState = Uninitialized
            /\ autoReload = FALSE
            /\ linkName = cfg.linkName
            /\ schemaLinks = cfg.schemaLinks
            /\ convention = conv
            /\ attempts = r.attempts
            /\ allOp = NoAll
            /\ calls = 0
            /\ lastOp = [id |-> 0, name |-> "new", page |-> ip, force |-> FALSE]
            /\ ret = NoPromise
            /\ normResponse = NoResponse
            /\ normInfo = NoInfo
            /\ ValueUnused
            /\ EngineUnused

(***************************************************************************)
(* Caller operations.                                                      *)
(***************************************************************************)
PageInputs == {Whole(0), Whole(1), Whole(2), Half(1)}
LimitInputs == {Whole(0), Whole(1), Whole(2), Half(1)}
TermInputs == {Str("a")}

Called(name, page, force) ==
    /\ calls < MaxCalls
    /\ calls' = calls + 1
    /\ lastOp' = [id |-> calls + 1, name |-> name, page |-> page, force |-> force]

\* The effect of a call of select made inside an operation.
Selects(self, page, force) ==
    \E r \in {select(self, page, force, attempts)} :
        /\ attempts' = r.attempts
        /\ ret' = r.promise

\* The effect of a call of select made by a setter, which returns nothing.
Reloads(self, page) ==
    \E r \in {select(self, page, FALSE, attempts)} :
        /\ attempts' = r.attempts
        /\ ret' = NoPromise

Select(page, force) ==
    /\ Called("select", page, force)
    /\ Selects(Self, page, force)
    /\ UNCHANGED <<cursorVars, configVars, allOp>>
    /\ UNCHANGED besidesEndpoint

NextPage ==
    /\ Called("next", Null, FALSE)
    /\ IF ~hasNext
       THEN ret' = Rejected(LastPage) /\ UNCHANGED attempts
       ELSE Selects(Self, Whole(current + 1), FALSE)
    /\ UNCHANGED <<cursorVars, configVars, allOp>>
    /\ UNCHANGED besidesEndpoint

PreviousPage ==
    /\ Called("previous", Null, FALSE)
    /\ IF ~hasPrevious
       THEN ret' = Rejected(FirstPage) /\ UNCHANGED attempts
       ELSE Selects(Self, Whole(current - 1), FALSE)
    /\ UNCHANGED <<cursorVars, configVars, allOp>>
    /\ UNCHANGED besidesEndpoint

Refresh ==
    /\ Called("refresh", Null, TRUE)
    /\ Selects(Self, Whole(current), TRUE)
    /\ UNCHANGED <<cursorVars, configVars, allOp>>
    /\ UNCHANGED besidesEndpoint

Search(t, initialPage) ==
    /\ Called("search", initialPage, FALSE)
    /\ terms' = t
    /\ Selects([Self EXCEPT !.terms = t], initialPage, FALSE)
    /\ UNCHANGED <<limit, current, count, totalPages, items, loadingState, autoReload,
                   configVars, allOp>>
    /\ UNCHANGED besidesEndpoint

SetLimit(value) ==
    /\ Called("limit", value, FALSE)
    /\ IF ~isInteger(value) \/ value.n < 1
       THEN UNCHANGED <<limit, attempts>> /\ ret' = NoPromise
       ELSE /\ limit' = value.n
            /\ IF autoReload
               THEN Reloads([Self EXCEPT !.limit = value.n], Whole(current))
               ELSE UNCHANGED attempts /\ ret' = NoPromise
    /\ UNCHANGED <<current, count, totalPages, items, terms, loadingState, autoReload,
                   configVars, allOp>>
    /\ UNCHANGED besidesEndpoint

SetCurrent(value) ==
    /\ Called("current", value, FALSE)
    /\ IF ~isInteger(value) \/ value.n < 1
       THEN UNCHANGED attempts /\ ret' = NoPromise
       ELSE IF autoReload
       THEN Reloads(Self, value)
       ELSE UNCHANGED attempts /\ ret' = NoPromise
    /\ UNCHANGED <<cursorVars, configVars, allOp>>
    /\ UNCHANGED besidesEndpoint

SetAutoReload(b) ==
    /\ Called("autoReload", Null, b)
    /\ autoReload' = b
    /\ ret' = NoPromise
    /\ UNCHANGED <<limit, current, count, totalPages, items, terms, loadingState,
                   configVars, attempts, allOp>>
    /\ UNCHANGED besidesEndpoint

\* all(): the synchronous part, up to firstPage.then(..).catch(..)
All ==
    /\ Called("all", Null, FALSE)
    /\ allOp.pc = "none"
    /\ IF loadingState > Uninitialized
       THEN /\ allOp' = [NoAll EXCEPT !.pc = "first", !.fresh = (attempts = <<>>),
                                      !.first = IF loadingState = Ready
                                                THEN Resolved(items)
                                                ELSE OnAfterPageChange,
                                      !.result = Pending]
            /\ UNCHANGED attempts
       ELSE \E r \in {select(Self, Whole(1), FALSE, attempts)} :
                /\ allOp' = [NoAll EXCEPT !.pc = "first", !.fresh = (attempts = <<>>),
                                          !.first = r.promise,
                                          !.result = Pending]
                /\ attempts' = r.attempts
    /\ ret' = [s |-> "all"]
    /\ UNCHANGED <<cursorVars, configVars>>
    /\ UNCHANGED besidesEndpoint

(***************************************************************************)
(* Steps of the agent and of the promise handlers.                         *)
(***************************************************************************)
Outcomes == {"ok", "listenerThrows", "nobody"}

\* agent.execute resolved for attempt id: select's .then handler (and its
\* .catch handler when the .then handler throws)
AgentResolves(id, outcome) ==
    /\ id \in 1..Len(attempts)
    /\ ~attempts[id].landed
    /\ \E r \in {onResponse([items |-> items, totalPages |-> totalPages, count |-> count],
                            attempts[id].page,
                            ResponseTo(attempts[id], convention, outcome),
                            outcome = "listenerThrows")} :
           /\ current' = r.current
           /\ items' = r.items
           /\ totalPages' = r.totalPages
           /\ count' = r.count
           /\ attempts' = [attempts EXCEPT ![id].landed = TRUE,
                                           ![id].events = @ \o r.events,
                                           ![id].promise = r.promise]
           /\ allOp' = IF allOp.first = OnAfterPageChange /\ r.heard
                       THEN [allOp EXCEPT !.first = Resolved(r.items)]
                       ELSE allOp
    /\ UNCHANGED <<limit, terms, loadingState, autoReload, configVars, calls, lastOp, ret>>
    /\ UNCHANGED besidesEndpoint

\* agent.execute rejected for attempt id: select's .catch handler
AgentRejects(id) ==
    /\ id \in 1..Len(attempts)
    /\ ~attempts[id].landed
    /\ \E r \in {onFailure(NetworkError)} :
           attempts' = [attempts EXCEPT ![id].landed = TRUE,
                                        ![id].events = @ \o r.events,
                                        ![id].promise = r.promise]
    /\ UNCHANGED <<cursorVars, configVars, allOp, calls, lastOp, ret>>
    /\ UNCHANGED besidesEndpoint

\* all(): firstPage settled; its .then handler issues the page loads, its
\* .catch handler rejects
AllFirstPage ==
    /\ allOp.pc = "first"
    /\ \E p \in {PromiseState(attempts, allOp.first)} :
           /\ p.s \in {"resolved", "rejected"}
           /\ IF p.s = "rejected"
              THEN /\ allOp' = [allOp EXCEPT !.pc = "done", !.result = Rejected(p.e)]
                   /\ UNCHANGED attempts
              ELSE \E r \in {selectPages(Self, totalPages, attempts)} :
                       /\ allOp' = [allOp EXCEPT !.pc = "pages", !.promises = r.promises]
                       /\ attempts' = r.attempts
    /\ UNCHANGED <<cursorVars, configVars, calls, lastOp, ret>>
    /\ UNCHANGED besidesEndpoint

\* all(): Promise.all(promises) resolved: resolve(_.flatten(result))
AllResolves ==
    /\ allOp.pc = "pages"
    /\ \A i \in 1..Len(allOp.promises) : PromiseState(attempts, allOp.promises[i]).s = "resolved"
    /\ allOp' = [allOp EXCEPT
                   !.pc = "done",
                   !.result = Resolved(Arr(flatten(
                       [i \in 1..Len(allOp.promises) |->
                           PromiseState(attempts, allOp.promises[i]).v])))]
    /\ UNCHANGED <<cursorVars, configVars, attempts, calls, lastOp, ret>>
    /\ UNCHANGED besidesEndpoint

\* all(): Promise.all(promises) rejected with the cause of a rejected page load
AllRejects ==
    /\ allOp.pc = "pages"
    /\ \E i \in 1..Len(allOp.promises) :
          /\ PromiseState(attempts, allOp.promises[i]).s = "rejected"
          /\ allOp' = [allOp EXCEPT
                         !.pc = "done",
                         !.result = Rejected(PromiseState(attempts, allOp.promises[i]).e)]
    /\ UNCHANGED <<cursorVars, configVars, attempts, calls, lastOp, ret>>
    /\ UNCHANGED besidesEndpoint

Next ==
    \/ \E page \in PageInputs, force \in BOOLEAN : Select(page, force)
    \/ NextPage
    \/ PreviousPage
    \/ Refresh
    \/ \E t \in TermInputs, page \in {Whole(1), Whole(2)} : Search(t, page)
    \/ \E value \in LimitInputs : SetLimit(value)
    \/ \E value \in {Whole(0), Whole(2)} : SetCurrent(value)
    \/ \E b \in BOOLEAN : SetAutoReload(b)
    \/ All
    \/ \E id \in 1..Len(attempts), outcome \in Outcomes : AgentResolves(id, outcome)
    \/ \E id \in 1..Len(attempts) : AgentRejects(id)
    \/ AllFirstPage
    \/ AllResolves
    \/ AllRejects

Spec == Init /\ [][Next]_vars

\* The same cursor under fair scheduling: every request the agent holds is
\* eventually answered or fails, and a promise handler that can run does run.
AgentSettles ==
    \E id \in 1..Len(attempts) :
        (\E outcome \in Outcomes : AgentResolves(id, outcome)) \/ AgentRejects(id)
AllContinues == AllFirstPage \/ AllResolves \/ AllRejects
\* new EndpointCursor(agent, 'items', null, 2) on a schema that holds the link
\* and an API of the "collection" convention: no request issued yet, two pages
\* to load.
LiveInit ==
    /\ Init
    /\ convention = "collection"
    /\ limit = 2
    /\ lastOp.page = Null
    /\ linkName = Str("items")
    /\ linkOf(Self) # Null
LiveSpec == LiveInit /\ [][Next]_vars /\ WF_vars(AgentSettles) /\ WF_vars(AllContinues)

(***************************************************************************)
(* The pagination extractor on its own: it is handed a response and        *)
(* returns the pagination info it finds in it.                             *)
(***************************************************************************)
\* The responses the extractor is handed: a body (or none) holding an items
\* part, a count part and a meta part, with headers (or none).
SomeItems == Arr(<<Num(1), Num(2), Num(3)>>)
ItemsParts ==
    {<<>>,
     << <<"items", SomeItems>> >>,
     << <<"data", SomeItems>> >>,
     << <<"collection", SomeItems>> >>}
CountParts ==
    {<<>>,
     << <<"totalCount", Num(10)>> >>,
     << <<"itemCount", Num(7)>> >>,
     << <<"totalCount", Num(10)>>, <<"itemCount", Num(7)>> >>,
     << <<"total_count", Num(10)>> >>}
MetaParts ==
    {<<>>,
     << <<"meta", Null>> >>,
     << <<"meta", Num(5)>> >>,
     << <<"meta", Obj(<< <<"total_count", Num(10)>>, <<"num_pages", Num(4)>> >>)>> >>,
     << <<"Pagination", Obj(<< <<"totalCount", Num(20)>>, <<"pages", Num(4)>>,
                               <<"collection", Arr(<<Num(9)>>)>> >>)>> >>}
Bodies == {Null} \cup {Obj(i \o c \o m) : i \in ItemsParts, c \in CountParts, m \in MetaParts}
HeaderSets ==
    {Null,
     Obj(<<>>),
     Obj(<< <<"x-total-count", Num(5)>> >>),
     Obj(<< <<"totalCount", Num(30)>>, <<"pages", Num(3)>> >>)}
Responses == [body : Bodies, headers : HeaderSets]

\* A cursor nobody uses while the extractor is exercised on its own.
EndpointUnused ==
    /\ limit = DefaultLimit
    /\ current = 1
    /\ count = Num(0)
    /\ totalPages = Num(1)
    /\ items = Arr(<<>>)
    /\ terms = Null
    /\ loadingState = Uninitialized
    /\ autoReload = FALSE
    /\ linkName = Null
    /\ schemaLinks = {}
    /\ convention = "collection"
    /\ attempts = <<>>
    /\ allOp = NoAll
    /\ calls = 0
    /\ lastOp = [id |-> 0, name |-> "none", page |-> Null, force |-> FALSE]
    /\ ret = NoPromise

NormInit ==
    /\ EndpointUnused
    /\ ValueUnused
    /\ EngineUnused
    /\ normResponse \in Responses
    /\ normInfo = NoInfo

\* genericPaginationInfoExtractor(response)
Normalize ==
    /\ normInfo = NoInfo
    /\ normInfo' = genericPaginationInfoExtractor(normResponse)
    /\ UNCHANGED <<normResponse, endpointVars, valueVars, engineVars>>

NormNext == Normalize

NormSpec == NormInit /\ [][NormNext]_vars

(***************************************************************************)
(* The ValueCursor: paging over a sequence held in memory.                 *)
(***************************************************************************)
\* toInteger of a number of halves: numer / 2, truncated toward zero
TruncHalves(numer) == IF numer >= 0 THEN numer \div 2 ELSE 0 - ((0 - numer) \div 2)

\* startIndex = (pageNumber - 1) * this.limit and endIndex = pageNumber *
\* this.limit, as _.slice takes them (toInteger)
startIndexOf(pageNumber, lim) ==
    IF pageNumber.frac THEN TruncHalves((2 * pageNumber.n - 1) * lim)
    ELSE (pageNumber.n - 1) * lim
endIndexOf(pageNumber, lim) ==
    IF pageNumber.frac THEN TruncHalves((2 * pageNumber.n + 1) * lim)
    ELSE pageNumber.n * lim

\* _.slice(array, start, end)
slice(array, start, end) ==
    LET length == Len(array)
        from == IF start < 0
                THEN (IF 0 - start > length THEN 0 ELSE length + start)
                ELSE start
        upto == IF end > length THEN length ELSE end
        to == IF upto < 0 THEN upto + length ELSE upto
    IN  IF length = 0 \/ from > to THEN <<>> ELSE SubSeq(array, from + 1, to)

\* String.prototype.toLowerCase on the characters of the model
lowerCase(c) == [i \in 1..Len(c) |-> IF c[i] = "O" THEN "o" ELSE c[i]]

\* String(this.terms): terms never set are undefined
termString(t) ==
    IF t = Null THEN <<"u", "n", "d", "e", "f", "i", "n", "e", "d">> ELSE StringOf(t)

\* The search step of select: the elements one of whose own properties holds,
\* in string form and lower case, the lower-cased terms
searchCollection(collection, t) ==
    LET qry == lowerCase(termString(t))
        hit(x) == /\ x.t = "obj"
                  /\ \E i \in 1..Len(x.o) : Contains(lowerCase(StringOf(x.o[i][2])), qry)
        acc[i \in 0..Len(collection)] ==
            IF i = 0 THEN <<>>
            ELSE IF hit(collection[i]) THEN Append(acc[i - 1], collection[i])
            ELSE acc[i - 1]
    IN  acc[Len(collection)]

\* The cursor fields the ValueCursor's select reads.
ValueSelf ==
    [wrapped |-> wrapped, limit |-> vLimit, current |-> vCurrent, totalPages |-> vTotalPages,
     items |-> vItems, terms |-> vTerms, filters |-> filters, sorters |-> sorters]

\* What select holds in _items between the sort step and the slice: the copy
\* of _wrapped filtered, searched when this.terms is empty (the guard is
\* _.isEmpty(this.terms)) and sorted.  The slice that follows is taken from
\* _wrapped and overwrites it, so no caller ever sees this sequence.
sortedItems(self, filtered) ==
    sortCollectionBy(IF isEmpty(self.terms)
                     THEN searchCollection(filtered, self.terms)
                     ELSE filtered,
                     self.sorters)

\* The outcome of select once its filter step has run: [threw, items, current].
\* When the filter step throws, _items is left holding the copy of _wrapped
\* made first and _current is not assigned; otherwise _items is the slice of
\* _wrapped and _current the page asked for.
selectOutcome(self, pageNumber, filtered) ==
    IF filtered.threw
    THEN [threw |-> TRUE, items |-> self.wrapped, current |-> self.current]
    ELSE [threw |-> FALSE,
          items |-> slice(self.wrapped, startIndexOf(pageNumber, self.limit),
                          endIndexOf(pageNumber, self.limit)),
          current |-> pageNumber]

\* ValueCursor.select(pageNumber)
valueSelect(self, pageNumber) ==
    selectOutcome(self, pageNumber, filterCollectionBy(self.wrapped, self.filters))

\* What a ValueCursor operation hands back: the cursor itself, or an error
\* thrown at the call site.
This == [s |-> "this"]
Threw(e) == [s |-> "threw", e |-> e]
InvalidReferenceToken == Str("Invalid reference token")

\* The loading state the constructor derives from the backing sequence.
loadingStateAlwaysReady(backing) == Ready
loadingStateOf(backing) == IF Len(backing) = 0 THEN Empty ELSE Ready

\* getAllCursorPages(cursor) for a ValueCursor: a cursor past Uninitialized
\* supplies its current items as page 1, then pages 2..totalPages are selected
\* in order and the pages concatenated.  The record is the promise returned
\* and the items and current the selects leave behind.
RECURSIVE gatherPages(_, _, _)
gatherPage(self, pageNumber, gathered, r) ==
    IF r.threw
    THEN [promise |-> Rejected(InvalidReferenceToken), items |-> r.items, current |-> r.current]
    ELSE gatherPages([self EXCEPT !.items = r.items, !.current = r.current],
                     pageNumber + 1, gathered \o r.items)
gatherPages(self, pageNumber, gathered) ==
    IF pageNumber > self.totalPages
    THEN [promise |-> Resolved(Arr(gathered)), items |-> self.items, current |-> self.current]
    ELSE gatherPage(self, pageNumber, gathered, valueSelect(self, Whole(pageNumber)))

getAllCursorPages(self) == gatherPages(self, 2, self.items)

(***************************************************************************)
(* Construction of a ValueCursor.                                          *)
(***************************************************************************)
Small == Obj(<<<<"Name", Txt(<<"a">>)>>, <<"Size", Num(1)>>>>)
Large == Obj(<<<<"Name", Txt(<<"b">>)>>, <<"Size", Num(2)>>>>)
Sizeless == Obj(<<<<"Name", Txt(<<"a", "b">>)>>>>)
Backings == {<<>>, <<Large>>, <<Large, Small>>, <<Large, Small, Sizeless>>,
             <<Large, Small, Small>>}
\* Column definitions: one without a path, one with; hasPath tells whether
\* the definition holds a path.
SizeColumn ==
    [name |-> "size", hasPath |-> FALSE, path |-> "", sortable |-> TRUE, filterable |-> FALSE]
TitleColumn ==
    [name |-> "title", hasPath |-> TRUE, path |-> "Name", sortable |-> FALSE,
     filterable |-> TRUE]
ColumnArgs == {<<>>, <<SizeColumn, TitleColumn>>}
ColumnNames == {"size", "title", "weight"}

ValueInit ==
    /\ EndpointUnused
    /\ EngineUnused
    /\ normResponse = NoResponse
    /\ normInfo = NoInfo
    /\ \E backing \in Backings, cols \in ColumnArgs :
        \E r \in {valueSelect([wrapped |-> backing, limit |-> DefaultLimit,
                               current |-> Whole(1), totalPages |-> 1, items |-> <<>>,
                               terms |-> Null, filters |-> <<>>, sorters |-> <<>>],
                              Whole(1))} :
            /\ wrapped = backing
            /\ vLimit = DefaultLimit
            /\ vCurrent = r.current
            /\ vCount = Len(backing)
            /\ vTotalPages = 1
            /\ vItems = r.items
            /\ vTerms = Null
            /\ columns = cols
            /\ filters = <<>>
            /\ sorters = <<>>
            /\ vLoadingState = loadingStateOf(backing)
            /\ isSearchApplied = TRUE
            /\ areFiltersApplied = TRUE
            /\ areSortersApplied = TRUE
            /\ vAutoReload = FALSE
            /\ givenFilters = NoArray
            /\ givenSorters = NoArray
            /\ vCalls = 0
            /\ vLastOp = [id |-> 0, name |-> "new", arg |-> Null]
            /\ vRet = NoPromise

(***************************************************************************)
(* Caller operations on a ValueCursor.                                     *)
(***************************************************************************)
ValuePageInputs == {Whole(0), Whole(1), Whole(2), Whole(3), Half(1)}
ValueLimitInputs == {Whole(0), Whole(1), Whole(2), Half(1)}
ValueTermInputs == {Txt(<<"a">>), Txt(<<>>)}
SizeBelowTwo == [path |-> "Size", operator |-> "LessThan", value |-> Num(2)]
NameHasA == [path |-> "Name", operator |-> "Contains", value |-> Txt(<<"a">>)]
FilterInputs == {[array |-> FALSE, list |-> <<SizeBelowTwo>>],
                 [array |-> TRUE, list |-> <<NameHasA>>]}
BySizeDescending == [path |-> "Size", direction |-> 1]
ByNameAscending == [path |-> "Name", direction |-> 0]
SortInputs == {[array |-> FALSE, list |-> <<BySizeDescending>>],
               [array |-> TRUE, list |-> <<ByNameAscending>>]}

ValueCalled(name, arg) ==
    /\ vCalls < MaxValueCalls
    /\ vCalls' = vCalls + 1
    /\ vLastOp' = [id |-> vCalls + 1, name |-> name, arg |-> arg]

\* The effect of a call of select made inside an operation of the ValueCursor.
ValueSelects(self, pageNumber) ==
    \E r \in {valueSelect(self, pageNumber)} :
        /\ vItems' = r.items
        /\ vCurrent' = r.current
        /\ vRet' = IF r.threw THEN Threw(InvalidReferenceToken) ELSE Resolved(Arr(r.items))

\* What no operation but the setters and the list operations assigns.
valueFixed == <<wrapped, vCount, vTotalPages, vLoadingState, areFiltersApplied,
                areSortersApplied>>
\* The lists of the cursor and the arrays they may be shared with.
listVars == <<columns, filters, sorters, givenFilters, givenSorters>>

ValueSelect(pageNumber) ==
    /\ ValueCalled("select", pageNumber)
    /\ ValueSelects(ValueSelf, pageNumber)
    /\ UNCHANGED <<valueFixed, vLimit, vTerms, listVars, isSearchApplied, vAutoReload>>
    /\ UNCHANGED besidesValue

\* this.current > 1 and this.current < this.totalPages, current a number of
\* wholes and perhaps a half
valueHasPrevious == vCurrent.n > 1 \/ (vCurrent.n = 1 /\ vCurrent.frac)
valueHasNext == vCurrent.n < vTotalPages

ValueNextPage ==
    /\ ValueCalled("next", Null)
    /\ IF ~valueHasNext
       THEN vRet' = Rejected(LastPage) /\ UNCHANGED <<vItems, vCurrent>>
       ELSE ValueSelects(ValueSelf, [vCurrent EXCEPT !.n = vCurrent.n + 1])
    /\ UNCHANGED <<valueFixed, vLimit, vTerms, listVars, isSearchApplied, vAutoReload>>
    /\ UNCHANGED besidesValue

ValuePreviousPage ==
    /\ ValueCalled("previous", Null)
    /\ IF ~valueHasPrevious
       THEN vRet' = Rejected(FirstPage) /\ UNCHANGED <<vItems, vCurrent>>
       ELSE ValueSelects(ValueSelf, [vCurrent EXCEPT !.n = vCurrent.n - 1])
    /\ UNCHANGED <<valueFixed, vLimit, vTerms, listVars, isSearchApplied, vAutoReload>>
    /\ UNCHANGED besidesValue

ValueRefresh ==
    /\ ValueCalled("refresh", Null)
    /\ ValueSelects(ValueSelf, vCurrent)
    /\ UNCHANGED <<valueFixed, vLimit, vTerms, listVars, isSearchApplied, vAutoReload>>
    /\ UNCHANGED besidesValue

ValueAll ==
    /\ ValueCalled("all", Null)
    /\ \E r \in {getAllCursorPages(ValueSelf)} :
        /\ vRet' = r.promise
        /\ vItems' = r.items
        /\ vCurrent' = r.current
    /\ UNCHANGED <<valueFixed, vLimit, vTerms, listVars, isSearchApplied, vAutoReload>>
    /\ UNCHANGED besidesValue

\* A search that recomputes the view at once, as the EndpointCursor's does.
ValueSearchApplies(t) ==
    /\ ValueCalled("search", t)
    /\ vTerms' = t
    /\ isSearchApplied' = TRUE
    /\ \E r \in {valueSelect([ValueSelf EXCEPT !.terms = t], Whole(1))} :
        /\ vItems' = r.items
        /\ vCurrent' = r.current
        /\ vRet' = IF r.threw THEN Threw(InvalidReferenceToken) ELSE This
    /\ UNCHANGED <<valueFixed, listVars, vLimit, vAutoReload>>
    /\ UNCHANGED besidesValue
ValueSearch(t) ==
    /\ ValueCalled("search", t)
    /\ vTerms' = t
    /\ isSearchApplied' = FALSE
    /\ vRet' = This
    /\ UNCHANGED <<valueFixed, listVars, vLimit, vCurrent, vItems, vAutoReload>>
    /\ UNCHANGED besidesValue

\* The list filterBy and sortBy leave: with replace the list is first set to
\* the given descriptors and these are then pushed onto it once more.
pushedOnto(list, given, replace) == IF replace THEN given \o given ELSE list \o given

\* The caller's array after filterBy or sortBy left the cursor's list as
\* `list`.  With replace an array argument becomes the cursor's list itself
\* (this._filters = filter) and a single descriptor is wrapped in a new
\* array; without replace the descriptors are pushed onto the list the
\* cursor has, which is the caller's array when the two are shared.
givenAfter(given, arg, replace, list) ==
    IF replace
    THEN [array |-> IF arg.array THEN list ELSE given.array, shared |-> arg.array]
    ELSE IF given.shared THEN [array |-> list, shared |-> TRUE]
    ELSE IF arg.array THEN [array |-> arg.list, shared |-> FALSE]
    ELSE given

\* The caller's array after a push onto the cursor's list, and after the
\* cursor replaced its list by a new array.
sharedWith(given, list) == IF given.shared THEN [given EXCEPT !.array = list] ELSE given
unshared(given) == [given EXCEPT !.shared = FALSE]

\* _.filter(list, x => !_.includes(given, x)): _.includes finds a descriptor
\* by identity; the descriptors of the model are the caller's objects
without(list, given) ==
    LET keep(x) == \A k \in 1..Len(given) : given[k] # x
    IN  SelectSeq(list, keep)

\* What the operations on the descriptor lists leave alone.
viewVars == <<valueFixed, columns, vLimit, vCurrent, vItems, vTerms, isSearchApplied,
              vAutoReload>>

ValueFilterBy(filter, replace) ==
    /\ ValueCalled("filterBy", [given |-> filter, replace |-> replace])
    /\ \E list \in {pushedOnto(filters, filter.list, replace)} :
        /\ filters' = list
        /\ givenFilters' = givenAfter(givenFilters, filter, replace, list)
    /\ vRet' = This
    /\ UNCHANGED <<viewVars, sorters, givenSorters>>
    /\ UNCHANGED besidesValue

ValueClearFilter(filter) ==
    /\ ValueCalled("clearFilter", filter)
    /\ filters' = without(filters, filter.list)
    /\ givenFilters' = unshared(givenFilters)
    /\ vRet' = This
    /\ UNCHANGED <<viewVars, sorters, givenSorters>>
    /\ UNCHANGED besidesValue

ValueClearFilters ==
    /\ ValueCalled("clearFilters", Null)
    /\ filters' = <<>>
    /\ givenFilters' = unshared(givenFilters)
    /\ vRet' = This
    /\ UNCHANGED <<viewVars, sorters, givenSorters>>
    /\ UNCHANGED besidesValue

ValueSortBy(sort, replace) ==
    /\ ValueCalled("sortBy", [given |-> sort, replace |-> replace])
    /\ \E list \in {pushedOnto(sorters, sort.list, replace)} :
        /\ sorters' = list
        /\ givenSorters' = givenAfter(givenSorters, sort, replace, list)
    /\ vRet' = This
    /\ UNCHANGED <<viewVars, filters, givenFilters>>
    /\ UNCHANGED besidesValue

ValueClearSort(sort) ==
    /\ ValueCalled("clearSort", sort)
    /\ sorters' = without(sorters, sort.list)
    /\ givenSorters' = unshared(givenSorters)
    /\ vRet' = This
    /\ UNCHANGED <<viewVars, filters, givenFilters>>
    /\ UNCHANGED besidesValue

\* clearSorters assigns this._filters.
ValueClearSorters ==
    /\ ValueCalled("clearSorters", Null)
    /\ filters' = <<>>
    /\ givenFilters' = unshared(givenFilters)
    /\ vRet' = This
    /\ UNCHANGED <<viewVars, sorters, givenSorters>>
    /\ UNCHANGED besidesValue

\* _.find(this._columns, x => x.name === columnName): the index of the first
\* column of that name, 0 when there is none (undefined)
findColumn(cols, columnName) ==
    IF \E i \in 1..Len(cols) : cols[i].name = columnName
    THEN CHOOSE i \in 1..Len(cols) :
            /\ cols[i].name = columnName
            /\ \A k \in 1..(i - 1) : cols[k].name # columnName
    ELSE 0

\* _.upperFirst(col.name) for the column names of the model
upperFirst(name) ==
    CASE name = "size" -> "Size"
      [] name = "title" -> "Title"
      [] OTHER -> name

\* !!col.path ? col.path : `/${_.upperFirst(col.name)}`, the leading "/" left
\* out as in every path of the model
columnPath(col) == IF col.hasPath THEN col.path ELSE upperFirst(col.name)

\* The errors the column operations throw, each naming the column.
UnableToSort(columnName) == [t |-> "error", what |-> "Unable to sort", column |-> columnName]
UnableToFilter(columnName) ==
    [t |-> "error", what |-> "Unable to filter", column |-> columnName]

ValueSortByColumn(columnName, direction) ==
    /\ ValueCalled("sortByColumn", [column |-> columnName, direction |-> direction])
    /\ \E i \in {findColumn(columns, columnName)} :
        IF i = 0
        THEN vRet' = Threw(TypeError) /\ UNCHANGED <<sorters, givenSorters>>
        ELSE IF ~columns[i].sortable
        THEN vRet' = Threw(UnableToSort(columnName)) /\ UNCHANGED <<sorters, givenSorters>>
        ELSE \E list \in {Append(sorters, [path |-> columnPath(columns[i]),
                                           direction |-> direction])} :
                /\ sorters' = list
                /\ givenSorters' = sharedWith(givenSorters, list)
                /\ vRet' = This
    /\ UNCHANGED <<viewVars, filters, givenFilters>>
    /\ UNCHANGED besidesValue

ValueFilterByColumn(columnName, operator, value) ==
    /\ ValueCalled("filterByColumn",
                   [column |-> columnName, operator |-> operator, value |-> value])
    /\ \E i \in {findColumn(columns, columnName)} :
        IF i = 0
        THEN vRet' = Threw(TypeError) /\ UNCHANGED <<filters, givenFilters>>
        ELSE IF ~columns[i].filterable
        THEN vRet' = Threw(UnableToFilter(columnName)) /\ UNCHANGED <<filters, givenFilters>>
        ELSE \E list \in {Append(filters, [path |-> columnPath(columns[i]),
                                           operator |-> operator, value |-> value])} :
                /\ filters' = list
                /\ givenFilters' = sharedWith(givenFilters, list)
                /\ vRet' = This
    /\ UNCHANGED <<viewVars, sorters, givenSorters>>
    /\ UNCHANGED besidesValue

\* set columns: the cursor keeps a copy (value.slice())
ValueSetColumns(value) ==
    /\ ValueCalled("columns", value)
    /\ columns' = value
    /\ vRet' = NoPromise
    /\ UNCHANGED <<valueFixed, filters, sorters, givenFilters, givenSorters, vLimit, vCurrent,
                   vItems, vTerms, isSearchApplied, vAutoReload>>
    /\ UNCHANGED besidesValue

\* The caller removes the last element of an array it passed to filterBy or
\* sortBy; an array the cursor shares is the cursor's list.
CallerPopsFilters ==
    /\ ValueCalled("caller: filters.pop", Null)
    /\ givenFilters.array # <<>>
    /\ givenFilters' = [givenFilters EXCEPT !.array = SubSeq(@, 1, Len(@) - 1)]
    /\ filters' = IF givenFilters.shared THEN givenFilters'.array ELSE filters
    /\ vRet' = NoPromise
    /\ UNCHANGED <<viewVars, sorters, givenSorters>>
    /\ UNCHANGED besidesValue

CallerPopsSorters ==
    /\ ValueCalled("caller: sorters.pop", Null)
    /\ givenSorters.array # <<>>
    /\ givenSorters' = [givenSorters EXCEPT !.array = SubSeq(@, 1, Len(@) - 1)]
    /\ sorters' = IF givenSorters.shared THEN givenSorters'.array ELSE sorters
    /\ vRet' = NoPromise
    /\ UNCHANGED <<viewVars, filters, givenFilters>>
    /\ UNCHANGED besidesValue

ValueSetLimit(value) ==
    /\ ValueCalled("limit", value)
    /\ IF ~isInteger(value) \/ value.n < 1
       THEN UNCHANGED <<vLimit, vItems, vCurrent>> /\ vRet' = NoPromise
       ELSE /\ vLimit' = value.n
            /\ IF vAutoReload
               THEN \E r \in {valueSelect([ValueSelf EXCEPT !.limit = value.n], vCurrent)} :
                        /\ vItems' = r.items
                        /\ vCurrent' = r.current
                        /\ vRet' = IF r.threw THEN Threw(InvalidReferenceToken) ELSE NoPromise
               ELSE UNCHANGED <<vItems, vCurrent>> /\ vRet' = NoPromise
    /\ UNCHANGED <<valueFixed, vTerms, listVars, isSearchApplied, vAutoReload>>
    /\ UNCHANGED besidesValue

ValueSetCurrent(value) ==
    /\ ValueCalled("current", value)
    /\ IF (~isInteger(value) \/ value.n < 1) \/ ~vAutoReload
       THEN UNCHANGED <<vItems, vCurrent>> /\ vRet' = NoPromise
       ELSE \E r \in {valueSelect(ValueSelf, value)} :
                /\ vItems' = r.items
                /\ vCurrent' = r.current
                /\ vRet' = IF r.threw THEN Threw(InvalidReferenceToken) ELSE NoPromise
    /\ UNCHANGED <<valueFixed, vLimit, vTerms, listVars, isSearchApplied, vAutoReload>>
    /\ UNCHANGED besidesValue

ValueSetAutoReload(b) ==
    /\ ValueCalled("autoReload", b)
    /\ vAutoReload' = b
    /\ vRet' = NoPromise
    /\ UNCHANGED <<valueFixed, listVars, vLimit, vCurrent, vItems, vTerms, isSearchApplied>>
    /\ UNCHANGED besidesValue

ValueNext ==
    \/ \E pageNumber \in ValuePageInputs : ValueSelect(pageNumber)
    \/ ValueNextPage
    \/ ValuePreviousPage
    \/ ValueRefresh
    \/ ValueAll
    \/ \E t \in ValueTermInputs : ValueSearch(t)
    \/ \E filter \in FilterInputs, replace \in BOOLEAN : ValueFilterBy(filter, replace)
    \/ \E filter \in FilterInputs : ValueClearFilter(filter)
    \/ ValueClearFilters
    \/ \E sort \in SortInputs, replace \in BOOLEAN : ValueSortBy(sort, replace)
    \/ \E sort \in SortInputs : ValueClearSort(sort)
    \/ ValueClearSorters
    \/ \E columnName \in ColumnNames : ValueSortByColumn(columnName, Ascending)
    \/ \E columnName \in ColumnNames : ValueFilterByColumn(columnName, "GreaterThan", Num(1))
    \/ \E value \in ColumnArgs : ValueSetColumns(value)
    \/ CallerPopsFilters
    \/ CallerPopsSorters
    \/ \E value \in ValueLimitInputs : ValueSetLimit(value)
    \/ \E value \in ValuePageInputs : ValueSetCurrent(value)
    \/ \E b \in BOOLEAN : ValueSetAutoReload(b)

ValueSpec == ValueInit /\ [][ValueNext]_vars

(***************************************************************************)
(* The filter/sort engine on its own: one function applied to arguments.   *)
(***************************************************************************)
\* Elements with a nested field, and elements that are strings.
Nested(name, size, inner) ==
    Obj(<<<<"Name", Txt(name)>>, <<"Size", Num(size)>>,
          <<"Meta", Obj(<<<<"Size", Num(inner)>>>>)>>>>)
EngineCollections ==
    {<<>>, <<Large, Small>>, <<Large, Small, Sizeless>>, <<Small, Large, Small>>,
     <<Nested(<<"b">>, 2, 2), Nested(<<"a">>, 1, 3), Nested(<<"a">>, 2, 1)>>,
     <<Nested(<<"a">>, 2, 2), Nested(<<"b">>, 1, 1)>>,
     <<Txt(<<"b">>), Txt(<<"a">>)>>}

ComparisonOperators ==
    {"LessThan", "LessThanOrEquals", "GreaterThan", "GreaterThanOrEquals"}
FilterValues == {Num(1), Num(2), Txt(<<"1", "0">>), Txt(<<"a">>)}
ResolvedValues ==
    {Num(1), Num(2), Num(10), Txt(<<"a">>), Txt(<<"a", "b">>), Txt(<<"9">>),
     Arr(<<Num(1), Num(2)>>), Arr(<<>>), Null, Small}
InnerSizeBelowTwo == [path |-> "Meta/Size", operator |-> "LessThan", value |-> Num(2)]
FilterLists ==
    {<<>>, <<SizeBelowTwo>>, <<NameHasA>>, <<NameHasA, SizeBelowTwo>>,
     <<SizeBelowTwo, NameHasA>>, <<InnerSizeBelowTwo>>}
SorterLists ==
    {<<>>,
     <<[path |-> "Size", direction |-> Ascending]>>,
     <<[path |-> "Size", direction |-> Descending]>>,
     <<[path |-> "Name", direction |-> Ascending], [path |-> "Size", direction |-> Descending]>>,
     <<[path |-> "Name", direction |-> Descending], [path |-> "Size", direction |-> Ascending]>>,
     <<[path |-> "Meta/Size", direction |-> Ascending]>>,
     <<[path |-> "Meta/Size", direction |-> Descending]>>}

MembershipOperators == {"In", "NotIn"}
MembershipValues == {Arr(<<Num(1), Txt(<<"a">>)>>), Arr(<<>>), Num(1), Txt(<<"a">>)}

EngineCalls ==
    {[fn |-> "applyFilter", filter |-> [path |-> "Size", operator |-> op, value |-> fv],
      val |-> val] : op \in ComparisonOperators, fv \in FilterValues, val \in ResolvedValues}
    \cup {[fn |-> "applyFilter", filter |-> [path |-> "Size", operator |-> op, value |-> fv],
            val |-> val] :
            op \in MembershipOperators, fv \in MembershipValues, val \in ResolvedValues}
    \cup {[fn |-> "filterCollectionBy", collection |-> c, filters |-> f] :
            c \in EngineCollections, f \in FilterLists}
    \cup {[fn |-> "sortCollectionBy", collection |-> c, sorters |-> srt] :
            c \in EngineCollections, srt \in SorterLists}

EngineInit ==
    /\ EndpointUnused
    /\ ValueUnused
    /\ normResponse = NoResponse
    /\ normInfo = NoInfo
    /\ engineCall \in EngineCalls
    /\ engineResult = NoResult

Applies(fn) == engineCall.fn = fn /\ engineResult = NoResult
Returns(value) == [threw |-> FALSE, returned |-> TRUE, value |-> value]
Throws == [threw |-> TRUE, returned |-> FALSE]

ApplyFilter ==
    /\ Applies("applyFilter")
    /\ engineResult' = Returns(applyFilter(engineCall.filter, engineCall.val))
    /\ UNCHANGED <<engineCall, endpointVars, normVars, valueVars>>

FilterCollection ==
    /\ Applies("filterCollectionBy")
    /\ \E r \in {filterCollectionBy(engineCall.collection, engineCall.filters)} :
        engineResult' = IF r.threw THEN Throws ELSE Returns(r.items)
    /\ UNCHANGED <<engineCall, endpointVars, normVars, valueVars>>

SortCollection ==
    /\ Applies("sortCollectionBy")
    /\ engineResult' = Returns(sortCollectionBy(engineCall.collection, engineCall.sorters))
    /\ UNCHANGED <<engineCall, endpointVars, normVars, valueVars>>

EngineNext == ApplyFilter \/ FilterCollection \/ SortCollection

EngineSpec == EngineInit /\ [][EngineNext]_vars

(***************************************************************************)
(* Properties.                                                             *)
(***************************************************************************)
\* The step is a call of the caller operation `name`.
IsCall(name) == lastOp'.id # lastOp.id /\ lastOp'.name = name

\* The step is the landing of attempt id: its agent promise settles and the
\* handlers of select run.
Lands(id) == ~attempts[id].landed /\ attempts'[id].landed

\* The names of the events emitted for attempt a, in order.
EventNames(a) == [i \in 1..Len(a.events) |-> a.events[i].name]

\* The attempts a step adds.
NewAttempts == (Len(attempts) + 1)..Len(attempts')

\* C1: select(page) without forceReload, called with a positive integer page
\* equal to current, resolves with the cursor's items, issues no request, emits
\* no event and leaves current, items, totalPages and count unchanged.
C1_SelectCurrentPageIsNoop ==
    [][(/\ IsCall("select")
        /\ ~lastOp'.force
        /\ isInteger(lastOp'.page)
        /\ lastOp'.page.n >= 1
        /\ lastOp'.page.n = current)
       => (/\ ret' = Resolved(items)
           /\ attempts' = attempts
           /\ UNCHANGED <<current, items, totalPages, count>>)]_vars

\* C1 witness: select(2) was answered from the loaded page 2.
C1_Witness ==
    /\ lastOp.name = "select"
    /\ ~lastOp.force
    /\ lastOp.page = Whole(2)
    /\ current = 2
    /\ items # Arr(<<>>)
    /\ ret = Resolved(items)

\* C2: whenever a select attempt ends in the error event and a rejection, the
\* event and the rejection carry the same cause, current, items, totalPages and
\* count are what they were before, and no further request is issued.
C2_FailureLeavesStateUntouched ==
    [][\A id \in 1..Len(attempts) :
          (Lands(id) /\ attempts'[id].promise.s = "rejected")
          => (/\ attempts'[id].events[Len(attempts'[id].events)]
                    = [name |-> "error", payload |-> attempts'[id].promise.e]
              /\ UNCHANGED <<current, items, totalPages, count>>
              /\ Len(attempts') = Len(attempts))]_vars

\* C3: every attempt that issued a request has emitted beforePageChange exactly
\* once, first, and once its request settled exactly one of afterPageChange and
\* error follows: never both, never neither.
C3_ExactlyOneOutcomeEvent ==
    \A id \in 1..Len(attempts) :
        IF attempts[id].landed
        THEN EventNames(attempts[id]) \in {<<"beforePageChange", "afterPageChange">>,
                                           <<"beforePageChange", "error">>}
        ELSE EventNames(attempts[id]) = <<"beforePageChange">>

\* C4: when a select(page) request succeeds, current becomes page, items,
\* totalPages and count are replaced from the extractor's output (items an
\* empty sequence when it found none), afterPageChange carries {page, items},
\* and the promise resolves with the sequence the cursor now exposes as items.
C4_SuccessResolvesWithItems ==
    [][\A id \in 1..Len(attempts) :
          (Lands(id) /\ attempts'[id].promise.s = "resolved")
          => (/\ current' = attempts[id].page
              /\ \E ex \in {genericPaginationInfoExtractor(
                                ResponseTo(attempts[id], convention, "ok"))} :
                    /\ items' = orEmpty(ex.info.items)
                    /\ totalPages' = ex.info.totalPages
                    /\ count' = ex.info.count
              /\ isArray(items')
              /\ attempts'[id].events[Len(attempts'[id].events)]
                    = [name |-> "afterPageChange",
                       payload |-> [page |-> current', items |-> items']]
              /\ attempts'[id].promise.v = items')]_vars

\* C5: in every reachable state items is a sequence, never null, and
\* totalPages is an integer >= 1 (1 when a response resolves no page count).
C5_ItemsAndTotalPagesWellFormed ==
    /\ isArray(items)
    /\ isFinite(totalPages)
    /\ ToNumber(totalPages) >= 1

\* C6: loadingState is Uninitialized until the first select that issues a
\* request, Loading while a request is in flight, and neither of the two once
\* the requests have settled; after a successful select it is not Uninitialized.
C6_LoadingStateFollowsRequests ==
    /\ attempts = <<>> => loadingState = Uninitialized
    /\ (\E id \in 1..Len(attempts) : ~attempts[id].landed) => loadingState = Loading
    /\ (attempts # <<>> /\ \A id \in 1..Len(attempts) : attempts[id].landed)
          => loadingState \notin {Uninitialized, Loading}
    /\ (\E id \in 1..Len(attempts) : attempts[id].promise.s = "resolved")
          => loadingState # Uninitialized

\* C7: all() called as the only operation on a cursor that had issued no
\* request, against an API whose responses the extractor understands, resolves
\* with the items of pages 1..P in page order: the whole collection.
C7_AllYieldsEveryPage ==
    (/\ allOp.pc = "done"
     /\ allOp.fresh
     /\ calls = 1
     /\ convention = "collection"
     /\ allOp.result.s = "resolved")
    => allOp.result.v = Arr(Collection)

\* C8: all() issues no request for page 1 when page 1 is held (current is 1
\* and loaded) or a load is in flight, and then requests each of the pages
\* 2..totalPages exactly once, in order.
C8_AllNeverRefetches ==
    [][/\ (/\ IsCall("all")
           /\ \/ \E id \in 1..Len(attempts) : ~attempts[id].landed
              \/ /\ current = 1
                 /\ \E id \in 1..Len(attempts) :
                       attempts[id].page = 1 /\ attempts[id].promise.s = "resolved")
          => \A j \in NewAttempts : attempts'[j].page # 1
       /\ (allOp.pc = "first" /\ allOp'.pc = "pages")
          => [j \in 1..(Len(attempts') - Len(attempts)) |-> attempts'[Len(attempts) + j].page]
                = [j \in 1..(ToNumber(totalPages) - 1) |-> j + 1]]_vars

\* C9: search(terms, initialPage) sets terms and, for every initialPage >= 1
\* (the current page included), issues one request for initialPage that
\* carries the new terms.
C9_SearchAlwaysRequests ==
    [][(IsCall("search") /\ linkOf(Self) # Null)
       => (/\ Len(attempts') = Len(attempts) + 1
           /\ attempts'[Len(attempts')].page = lastOp'.page.n
           /\ searchTermProperty \in DOMAIN attempts'[Len(attempts')].urlData
           /\ attempts'[Len(attempts')].urlData[searchTermProperty] = terms')]_vars

\* C10: the limit setter ignores a value that is not a positive integer (no
\* state change, no request); a valid value becomes limit, and a reload of the
\* current page with the new limit is requested exactly when autoReload is set.
C10_LimitSetterReloads ==
    [][IsCall("limit")
       => IF ~isInteger(lastOp'.page) \/ lastOp'.page.n < 1
          THEN UNCHANGED <<cursorVars, attempts>>
          ELSE /\ limit' = lastOp'.page.n
               /\ ~autoReload => attempts' = attempts
               /\ (autoReload /\ linkOf(Self) # Null)
                     => /\ Len(attempts') = Len(attempts) + 1
                        /\ attempts'[Len(attempts')].page = current
                        /\ attempts'[Len(attempts')].urlData["limit"] = Num(limit')]_vars

\* The step's call returned what select(page) returns on the cursor as it was,
\* issued the request select(page) issues, and changed no cursor field.
BehavesAsSelect(page) ==
    /\ \E r \in {select(Self, page, FALSE, attempts)} :
           ret' = r.promise /\ attempts' = r.attempts
    /\ UNCHANGED <<current, items, totalPages, count>>

\* The step's call rejected with cause e at the call site: no request, no
\* event, no change of current, items, totalPages and count.
RejectsUntouched(e) ==
    /\ ret' = Rejected(e)
    /\ attempts' = attempts
    /\ UNCHANGED <<current, items, totalPages, count>>

\* C11: next() rejects, issues no request, emits no event and changes no state
\* whenever current is not below totalPages (at the last page or beyond it; an
\* unresolved totalPages compares as 0), and previous() does whenever current
\* is 1; otherwise they behave as select(current + 1) / select(current - 1).
C11_NextPreviousRejectAtTheEnds ==
    [][/\ IsCall("next")
          => IF current >= ToNumber(totalPages)
             THEN RejectsUntouched(LastPage)
             ELSE BehavesAsSelect(Whole(current + 1))
       /\ IsCall("previous")
          => IF current = 1
             THEN RejectsUntouched(FirstPage)
             ELSE BehavesAsSelect(Whole(current - 1))]_vars

\* C11 witness: next() was rejected on the last of two loaded pages.
C11_Witness ==
    /\ lastOp.name = "next"
    /\ ret = Rejected(LastPage)
    /\ totalPages = Num(2)
    /\ current = 2
    /\ \E id \in 1..Len(attempts) : attempts[id].promise.s = "resolved"

\* C11 as stated: next() rejects exactly when current equals totalPages and
\* previous() exactly when current equals 1; in every other state they behave
\* as select(current + 1) / select(current - 1).
C11_RejectOnlyAtEquality ==
    [][/\ IsCall("next")
          => IF totalPages = Num(current)
             THEN RejectsUntouched(LastPage)
             ELSE BehavesAsSelect(Whole(current + 1))
       /\ IsCall("previous")
          => IF current = 1
             THEN RejectsUntouched(FirstPage)
             ELSE BehavesAsSelect(Whole(current - 1))]_vars

\* No link can be resolved: the configured name is missing from the schema,
\* or no name is configured and none of list/collection/index is exposed.
NoLinkResolves ==
    IF linkName.t = "str"
    THEN linkName.s \notin schemaLinks
    ELSE schemaLinks \cap {"list", "collection", "index"} = {}

\* The page argument of the step's call is a positive integer.
ValidPageArg == isInteger(lastOp'.page) /\ lastOp'.page.n >= 1

\* C12: select with a page that is not a positive integer rejects at the call
\* site; so does a select of a valid page that is not the no-op on the current
\* page when no link can be resolved; both issue no request, emit no event and
\* leave current, items, totalPages, count and terms unchanged.  The current
\* setter with an invalid value changes nothing and issues no request.
C12_ValidationFailsAtCallSite ==
    [][/\ (IsCall("select") /\ ~ValidPageArg)
          => (RejectsUntouched(InvalidPage) /\ UNCHANGED terms)
       /\ (/\ IsCall("select") /\ ValidPageArg /\ NoLinkResolves
           /\ (lastOp'.page.n # current \/ lastOp'.force))
          => (RejectsUntouched(NoLink) /\ UNCHANGED terms)
       /\ (IsCall("current") /\ ~ValidPageArg)
          => UNCHANGED <<cursorVars, attempts>>]_vars

\* C12 witness: select(2) was rejected on a cursor without a configured link
\* name whose schema exposes none of list/collection/index.
C12_Witness ==
    /\ lastOp.name = "select"
    /\ lastOp.page = Whole(2)
    /\ linkName = Null
    /\ NoLinkResolves
    /\ ret = Rejected(NoLink)
    /\ attempts = <<>>

\* C12 as stated: every select of a valid page fails at the call site when no
\* link can be resolved.
C12_NoLinkAlwaysFails ==
    [][/\ (IsCall("select") /\ ~ValidPageArg)
          => (RejectsUntouched(InvalidPage) /\ UNCHANGED terms)
       /\ (IsCall("select") /\ ValidPageArg /\ NoLinkResolves)
          => (RejectsUntouched(NoLink) /\ UNCHANGED terms)
       /\ (IsCall("current") /\ ~ValidPageArg)
          => UNCHANGED <<cursorVars, attempts>>]_vars

\* The response of attempt id is applied in this step: it lands and
\* afterPageChange is emitted for it.
Applied(id) ==
    /\ Lands(id)
    /\ Len(attempts'[id].events) >= 2
    /\ attempts'[id].events[2].name = "afterPageChange"

\* The items the served API holds for the page request req asks for, as far as
\* the extractor finds them in the response.
ServedItems(req) ==
    IF convention = "collection"
    THEN Arr(PageItems(req.page, req.urlData["limit"].n))
    ELSE Arr(<<>>)

C14_ConstructionLoadsInitialPage ==
    (calls = 0 /\ ~NoLinkResolves)
    => IF lastOp.page # Null /\ lastOp.page.n >= 1
       THEN Len(attempts) = 1 /\ attempts[1].page = lastOp.page.n
       ELSE attempts = <<>>

\* The sources of a response in the order they are to be searched: the body,
\* the headers when there are any, the body's pagination/meta value.
SourcesOf(r) ==
    <<r.body>>
    \o (IF isEmpty(r.headers) THEN <<>> ELSE <<r.headers>>)
    \o (IF findMetaKey(r.body) # 0
        THEN <<nestedBody(r.body, findMetaKey(r.body))>>
        ELSE <<>>)

\* Each candidate key followed by its snake_case and its kebab-case form.
WithForms(keys) ==
    [i \in 1..(3 * Len(keys)) |->
        LET k == keys[((i - 1) \div 3) + 1]
        IN  CASE (i - 1) % 3 = 0 -> k
              [] (i - 1) % 3 = 1 -> snakeCase(k)
              [] OTHER -> kebabCase(k)]

\* The value of the first acceptable match: the earliest source, and in it
\* the earliest name, that holds a value the validator accepts; Null if none.
FirstMatch(validator, sources, names) ==
    LET hits == {h \in (1..Len(sources)) \X (1..Len(names)) :
                    validates(validator, Get(sources[h[1]], names[h[2]]))}
        first == CHOOSE h \in hits :
                    \A g \in hits : h[1] < g[1] \/ (h[1] = g[1] /\ h[2] <= g[2])
    IN  IF hits = {} THEN Null ELSE Get(sources[first[1]], names[first[2]])

\* The extractor has returned.
Normalized == normInfo # NoInfo /\ ~normInfo.threw

\* C15: when the extractor returns, each of count, totalPages and items is the
\* first match in the order body, headers, nested pagination/meta object, and
\* in a source in the order of the candidate keys: no later key or source
\* overrides it or resets it to null.
C15_FirstMatchWins ==
    Normalized
    => /\ normInfo.info.count
            = FirstMatch("isFinite", SourcesOf(normResponse), paginationCollectionCountProperties)
       /\ normInfo.info.totalPages
            = FirstMatch("isFinite", SourcesOf(normResponse), paginationPageCountProperties)
       /\ normInfo.info.items
            = FirstMatch("isArray", SourcesOf(normResponse), paginationPageItemsProperties)

\* The example {data: [1,2,3], meta: {total_count: 10, num_pages: 4}}.
ExampleBody ==
    Obj(<< <<"data", SomeItems>>,
           <<"meta", Obj(<< <<"total_count", Num(10)>>, <<"num_pages", Num(4)>> >>)>> >>)

\* C16: when the extractor returns, count and totalPages are the first match
\* among their candidate keys taken verbatim, in snake_case and in kebab-case
\* (the candidate keys of items read the same in all three forms); the
\* example body yields items = [1,2,3], count = 10, totalPages = 4.
C16_KeyFormsRecognised ==
    Normalized
    => /\ normInfo.info.count
            = FirstMatch("isFinite", SourcesOf(normResponse),
                         WithForms(paginationCollectionCountProperties))
       /\ normInfo.info.totalPages
            = FirstMatch("isFinite", SourcesOf(normResponse),
                         WithForms(paginationPageCountProperties))
       /\ (normResponse.body = ExampleBody /\ isEmpty(normResponse.headers))
          => normInfo.info = [items |-> SomeItems, count |-> Num(10), totalPages |-> Num(4)]

\* C17: the extractor never throws, whatever the response (no body, no
\* headers, a pagination/meta key holding null or a non-object), and a field
\* no source holds under any candidate key is returned as null.
C17_ExtractorIsTotal ==
    normInfo # NoInfo
    => /\ ~normInfo.threw
       /\ FirstMatch("isFinite", SourcesOf(normResponse),
                     WithForms(paginationCollectionCountProperties)) = Null
          => normInfo.info.count = Null
       /\ FirstMatch("isFinite", SourcesOf(normResponse),
                     WithForms(paginationPageCountProperties)) = Null
          => normInfo.info.totalPages = Null
       /\ FirstMatch("isArray", SourcesOf(normResponse),
                     WithForms(paginationPageItemsProperties)) = Null
          => normInfo.info.items = Null

\* This step is a call of the named ValueCursor operation.
IsValueCall(name) == vLastOp'.id # vLastOp.id /\ vLastOp'.name = name

\* The elements of backing at indices [(page-1)*lim, page*lim), in order.
BackingSlice(backing, page, lim) ==
    LET from == Min((page - 1) * lim, Len(backing))
        upto == Min(page * lim, Len(backing))
    IN  [k \in 1..(upto - from) |-> backing[from + k]]

\* C18: count is the length of the backing sequence and loadingState is Empty
\* when the backing sequence has no element and Ready otherwise, right after
\* construction and after any sequence of calls.
C18_CountAndLoadingStateFixed ==
    /\ vCount = Len(wrapped)
    /\ vLoadingState = IF Len(wrapped) = 0 THEN Empty ELSE Ready

\* An empty cursor that was searched and then refreshed is still Empty.
C18_Witness ==
    /\ vLastOp.name = "refresh"
    /\ vTerms # Null
    /\ wrapped = <<>>
    /\ vLoadingState = Empty
    /\ vCount = 0

\* C19: after select(page), page an integer of 1 or higher, current is page
\* and items is the elements of the backing sequence at indices
\* [(page-1)*limit, page*limit) in original order, whatever filters, sorters
\* and search terms are set; the backing sequence is not modified.
C19_SelectSlicesBacking ==
    [][(IsValueCall("select") /\ isInteger(vLastOp'.arg) /\ vLastOp'.arg.n >= 1)
       => /\ vCurrent' = vLastOp'.arg
          /\ vItems' = BackingSlice(wrapped, vLastOp'.arg.n, vLimit)
          /\ wrapped' = wrapped]_vars

\* C20: all() returns exactly the elements of the backing sequence, each once
\* and in original order, whatever the page size; stated for a cursor that
\* shows its first page, the items being those of page 1 under the limit.
C20_AllReturnsBacking ==
    [][(/\ IsValueCall("all")
        /\ vCurrent = Whole(1)
        /\ vItems = BackingSlice(wrapped, 1, vLimit))
       => vRet' = Resolved(Arr(wrapped))]_vars

\* The operations that change what the next select is to compute.
Mutators ==
    {"search", "filterBy", "clearFilter", "clearFilters", "sortBy", "clearSort",
     "clearSorters", "sortByColumn", "filterByColumn"}
IsMutatorCall == vLastOp'.id # vLastOp.id /\ vLastOp'.name \in Mutators
ViewUntouched == UNCHANGED <<vItems, vCurrent, vCount, vTotalPages, vLimit>>

Returned(names) ==
    vLastOp'.id # vLastOp.id /\ vLastOp'.name \in names /\ vRet'.s = "this"

\* C22: after filterBy, clearFilter, clearFilters or filterByColumn,
\* areFiltersApplied is false, and after sortBy, clearSort, clearSorters or
\* sortByColumn, areSortersApplied is false.
C22_MutatorsMarkDirty ==
    [][/\ Returned({"filterBy", "clearFilter", "clearFilters", "filterByColumn"})
          => ~areFiltersApplied'
       /\ Returned({"sortBy", "clearSort", "clearSorters", "sortByColumn"})
          => ~areSortersApplied']_vars

\* This step is a call of the named operation with replace = true and an
\* array of descriptors.
ReplacesByArray(name) ==
    IsValueCall(name) /\ vLastOp'.arg.given.array /\ vLastOp'.arg.replace

\* C23: the cursor's filters and sorters are never an array supplied by a
\* caller: filterBy and sortBy with replace = true leave the array they were
\* given as it was given, and a caller changing its own array afterwards does
\* not change the cursor's lists.
C23_ListsAreOwned ==
    [][/\ ReplacesByArray("filterBy") => givenFilters'.array = vLastOp'.arg.given.list
       /\ ReplacesByArray("sortBy") => givenSorters'.array = vLastOp'.arg.given.list
       /\ IsValueCall("caller: filters.pop") => filters' = filters
       /\ IsValueCall("caller: sorters.pop") => sorters' = sorters]_vars

\* The columns of the given name, and the path a descriptor made for column
\* col is to have: the column's own, or its name with the first letter
\* capitalised (the leading "/" left out as in every path of the model).
ColumnsNamed(columnName) == {i \in 1..Len(columns) : columns[i].name = columnName}
Capitalised == [size |-> "Size", title |-> "Title", weight |-> "Weight"]
PathFor(col) == IF col.hasPath THEN col.path ELSE Capitalised[col.name]

\* C24: sortByColumn appends exactly one sort descriptor, and filterByColumn
\* exactly one filter descriptor, with the column's path or "/" and the
\* capitalised name, only when the named column is sortable / filterable;
\* otherwise it throws an error naming the column and leaves filters and
\* sorters unchanged.
C24_ColumnOperations ==
    [][/\ IsValueCall("sortByColumn")
          => IF \E i \in ColumnsNamed(vLastOp'.arg.column) : columns[i].sortable
             THEN /\ \E i \in ColumnsNamed(vLastOp'.arg.column) :
                        sorters' = Append(sorters, [path |-> PathFor(columns[i]),
                                                    direction |-> vLastOp'.arg.direction])
                  /\ filters' = filters
                  /\ vRet' = This
             ELSE /\ vRet' = Threw(UnableToSort(vLastOp'.arg.column))
                  /\ UNCHANGED <<filters, sorters>>
       /\ IsValueCall("filterByColumn")
          => IF \E i \in ColumnsNamed(vLastOp'.arg.column) : columns[i].filterable
             THEN /\ \E i \in ColumnsNamed(vLastOp'.arg.column) :
                        filters' = Append(filters, [path |-> PathFor(columns[i]),
                                                    operator |-> vLastOp'.arg.operator,
                                                    value |-> vLastOp'.arg.value])
                  /\ sorters' = sorters
                  /\ vRet' = This
             ELSE /\ vRet' = Threw(UnableToFilter(vLastOp'.arg.column))
                  /\ UNCHANGED <<filters, sorters>>]_vars


\* Element x satisfies filter f: x holds the field at f.path and the filter's
\* operator accepts its value.
Satisfies(x, f) ==
    /\ ~pointerThrows(x, f.path)
    /\ applyFilter(f, pointerGet(x, f.path).value)
SatisfiesAll(x) ==
    \A i \in 1..Len(engineCall.filters) : Satisfies(x, engineCall.filters[i])
FilterApplied == engineCall.fn = "filterCollectionBy" /\ engineResult # NoResult

\* C25: filterCollectionBy(seq, filters) returns exactly the elements of seq
\* that satisfy every filter, in their original relative order; with an empty
\* filter list it returns all of seq.
C25_FilterKeepsSatisfying ==
    FilterApplied =>
        /\ engineResult.returned
        /\ engineResult.value = SelectSeq(engineCall.collection, SatisfiesAll)
        /\ (engineCall.filters = <<>> => engineResult.value = engineCall.collection)

\* The same, for the applications in which every element holds every
\* filter's field.
EveryFieldHeld ==
    \A i \in 1..Len(engineCall.collection) : \A k \in 1..Len(engineCall.filters) :
        ~pointerThrows(engineCall.collection[i], engineCall.filters[k].path)
C25_FilterKeepsSatisfyingWhereHeld ==
    (FilterApplied /\ EveryFieldHeld) =>
        /\ engineResult.returned
        /\ engineResult.value = SelectSeq(engineCall.collection, SatisfiesAll)

\* a op n, read off the difference a - n
HoldsOfDifference(op, d) ==
    \/ op = "LessThan" /\ d < 0
    \/ op = "LessThanOrEquals" /\ d <= 0
    \/ op = "GreaterThan" /\ d > 0
    \/ op = "GreaterThanOrEquals" /\ d >= 0
\* a compared numerically with the filter's value: false when that value is
\* not a number nor the numeral of one
Numerically(op, a, value) ==
    /\ ~NumberOf(value).nan
    /\ HoldsOfDifference(op, a - NumberOf(value).n)
ComparisonApplied ==
    /\ engineCall.fn = "applyFilter"
    /\ engineCall.filter.operator \in ComparisonOperators
    /\ engineResult # NoResult

\* C26: a comparison filter compares a resolved number numerically with
\* filter.value, compares the length of a resolved string or array with
\* filter.value, and is false for any other resolved value.
C26_ComparisonFilters ==
    ComparisonApplied =>
        /\ engineResult.returned
        /\ engineResult.value =
            (CASE engineCall.val.t = "num" ->
                    Numerically(engineCall.filter.operator, engineCall.val.n,
                                engineCall.filter.value)
               [] engineCall.val.t = "txt" ->
                    Numerically(engineCall.filter.operator, Len(engineCall.val.c),
                                engineCall.filter.value)
               [] engineCall.val.t = "arr" ->
                    Numerically(engineCall.filter.operator, Len(engineCall.val.a),
                                engineCall.filter.value)
               [] OTHER -> FALSE)

\* "9" > "10" was asked: false by length (1 > 10), true lexicographically.
C26_Witness ==
    /\ ComparisonApplied
    /\ engineCall.filter.operator = "GreaterThan"
    /\ engineCall.val = Txt(<<"9">>)
    /\ engineCall.filter.value = Txt(<<"1", "0">>)
    /\ engineResult.value = FALSE

\* The sort key of element x for a sorter: the field its path points at.
KeyOf(x, sorter) == pointerGet(x, sorter.path).value
KeyLess(a, b) ==
    IF a.t = "num" /\ b.t = "num" THEN a.n < b.n
    ELSE a.t = "txt" /\ b.t = "txt" /\ StringLess(a.c, b.c)
\* x (at index ix of seq) comes before y (at index iy) under the sorters
ComesBefore(x, ix, y, iy, by) ==
    LET differ == {k \in 1..Len(by) : KeyOf(x, by[k]) # KeyOf(y, by[k])}
    IN  IF differ = {} THEN ix < iy
        ELSE \E k \in differ :
                /\ \A e \in differ : k <= e
                /\ IF by[k].direction = Descending
                   THEN KeyLess(KeyOf(y, by[k]), KeyOf(x, by[k]))
                   ELSE KeyLess(KeyOf(x, by[k]), KeyOf(y, by[k]))
\* result is seq rearranged by a permutation that puts every pair in order
SortedStably(result, seq, by) ==
    \E p \in [1..Len(seq) -> 1..Len(seq)] :
        /\ \A i, j \in 1..Len(seq) : i # j => p[i] # p[j]
        /\ result = [i \in 1..Len(seq) |-> seq[p[i]]]
        /\ \A i, j \in 1..Len(seq) :
            i < j => ComesBefore(seq[p[i]], p[i], seq[p[j]], p[j], by)
SortApplied == engineCall.fn = "sortCollectionBy" /\ engineResult # NoResult
\* every element is an object that holds every sorter's field
EveryKeyHeld ==
    \A i \in 1..Len(engineCall.collection) :
        /\ engineCall.collection[i].t = "obj"
        /\ \A k \in 1..Len(engineCall.sorters) :
            ~pointerThrows(engineCall.collection[i], engineCall.sorters[k].path)

\* C27: sortCollectionBy(seq, sorters) returns a permutation of seq ordered
\* by the first sorter's field in its direction, ties broken by each
\* following sorter in turn, elements equal on every sort key keeping their
\* original relative order (checked where every element holds every field).
C27_SortIsStableMultiKey ==
    (SortApplied /\ EveryKeyHeld) =>
        /\ engineResult.returned
        /\ SortedStably(engineResult.value, engineCall.collection, engineCall.sorters)

\* The same, for sorters whose path is a single reference token.
SingleTokenPaths ==
    \A k \in 1..Len(engineCall.sorters) : Len(Tokens(engineCall.sorters[k].path)) = 1
C27_SortIsStableMultiKeyOnTopLevelFields ==
    (SortApplied /\ EveryKeyHeld /\ SingleTokenPaths) =>
        SortedStably(engineResult.value, engineCall.collection, engineCall.sorters)


\* The list filterBy / sortBy is to leave, from the list before the call and
\* the call's arguments.
Replaced(list, arg) == IF arg.replace THEN arg.given.list ELSE list \o arg.given.list

\* C28: filterBy(f, replace = true) leaves filters equal to exactly the given
\* filter(s), once each and in the given order; filterBy(f) with replace =
\* false leaves the previous filters in place and appends the given ones once
\* each.  The same holds for sortBy and sorters.
C28_ReplaceSemantics ==
    [][/\ IsValueCall("filterBy") => filters' = Replaced(filters, vLastOp'.arg)
       /\ IsValueCall("sortBy") => sorters' = Replaced(sorters, vLastOp'.arg)]_vars

\* The same, for replace = false only.
C28_AppendSemantics ==
    [][/\ (IsValueCall("filterBy") /\ ~vLastOp'.arg.replace)
          => filters' = filters \o vLastOp'.arg.given.list
       /\ (IsValueCall("sortBy") /\ ~vLastOp'.arg.replace)
          => sorters' = sorters \o vLastOp'.arg.given.list]_vars

\* C29: after clearSorters() sorters is empty and filters is unchanged;
\* after clearFilters() filters is empty and sorters is unchanged.
C29_ClearAllFrame ==
    [][/\ IsValueCall("clearSorters") => (sorters' = <<>> /\ filters' = filters)
       /\ IsValueCall("clearFilters") => (filters' = <<>> /\ sorters' = sorters)]_vars

\* The same, for clearFilters only.
C29_ClearFiltersFrame ==
    [][IsValueCall("clearFilters") => (filters' = <<>> /\ sorters' = sorters)]_vars


\* max(1, ceil(n / lim)) for a page size lim of 1 or more
PagesFor(n, lim) == IF n = 0 THEN 1 ELSE (n + lim - 1) \div lim

\* C30: for a backing sequence of n elements and page size limit, totalPages
\* is max(1, ceil(n / limit)): hasNext() is true exactly when current is below
\* that page count, and next() rejects only on the last page.
C30_PagingFollowsLimit ==
    [][/\ vTotalPages' = PagesFor(Len(wrapped'), vLimit')
       /\ valueHasNext' <=> (vCurrent'.n < PagesFor(Len(wrapped'), vLimit'))
       /\ IsValueCall("next") =>
            ((vRet' = Rejected(LastPage)) <=> (vCurrent.n >= PagesFor(Len(wrapped), vLimit)))]_vars

\* The same, for cursors whose backing sequence fits one page.
C30_PagingOfOnePage ==
    [][Len(wrapped) <= vLimit' =>
        /\ vTotalPages' = PagesFor(Len(wrapped'), vLimit')
        /\ valueHasNext' <=> (vCurrent'.n < PagesFor(Len(wrapped'), vLimit'))]_vars


\* A page number that is a positive integer.
PositiveInteger(page) == isInteger(page) /\ page.n >= 1
FailedAtCallSite == vRet'.s \in {"rejected", "threw"}

\* C31: current is a positive integer in every reachable state, and select
\* with a page that is not a positive integer fails at the call site and
\* leaves current and items unchanged.
C31_PageValidity ==
    [][/\ PositiveInteger(vCurrent')
       /\ (IsValueCall("select") /\ ~PositiveInteger(vLastOp'.arg))
          => (FailedAtCallSite /\ UNCHANGED <<vCurrent, vItems>>)]_vars

\* The same validation, for the setter of current only.
C31_CurrentSetterValidates ==
    [][(IsValueCall("current") /\ ~PositiveInteger(vLastOp'.arg))
       => UNCHANGED <<vCurrent, vItems>>]_vars


\* The cursor shows what the constructor left.
ShowsInitialValues ==
    current = 1 /\ items = Arr(<<>>) /\ totalPages = Num(1) /\ count = Num(0)
\* What the extractor finds in the response served to request req.
ServedInfo(req) == genericPaginationInfoExtractor(ResponseTo(req, convention, "ok")).info
\* current, items, totalPages and count are those of the response to attempt
\* id, whose select resolved.
StemsFrom(id) ==
    /\ attempts[id].landed
    /\ attempts[id].promise.s = "resolved"
    /\ current = attempts[id].page
    /\ items = orEmpty(ServedInfo(attempts[id]).items)
    /\ totalPages = ServedInfo(attempts[id]).totalPages
    /\ count = ServedInfo(attempts[id]).count

\* C32: in every reachable state current, items, totalPages and count stem
\* from one and the same successfully applied response, or are all still the
\* initial values.
C32_StateStemsFromOneResponse ==
    ShowsInitialValues \/ \E id \in 1..Len(attempts) : StemsFrom(id)

\* The same, as long as no handler of a response has thrown.
NoHandlerThrew ==
    \A id \in 1..Len(attempts) :
        attempts[id].promise.s = "rejected" => attempts[id].promise.e = NetworkError
C32_StateStemsFromOneResponseUnlessThrown ==
    NoHandlerThrew => (ShowsInitialValues \/ \E id \in 1..Len(attempts) : StemsFrom(id))


\* The requests that can be in flight when all() is called: one issued by the
\* constructor or by each call before it.
AttemptIds == 1..MaxCalls
AllPending == allOp.pc \in {"first", "pages"}
AllSettled == allOp.pc = "done" /\ allOp.result.s \in {"resolved", "rejected"}
\* Attempt id is a load of page 1 that was in flight when all() was called and
\* still is: all() has been called, has not got past its first page, and the
\* request is not the one all() issued itself.
InFlightBeforeAll(id) ==
    /\ allOp.pc = "first"
    /\ id <= Len(attempts)
    /\ attempts[id].page = 1
    /\ ~attempts[id].landed
    /\ allOp.first # OfAttempt(id)
\* all() has settled and attempt id has landed; if it failed, all() rejected.
SettledWith(id) ==
    /\ AllSettled
    /\ id <= Len(attempts)
    /\ attempts[id].landed
    /\ attempts[id].promise.s = "rejected" => allOp.result.s = "rejected"
\* all() resolved only if every page load it awaited resolved.
ResolvedOnlyOnSuccess ==
    (allOp.pc = "done" /\ allOp.result.s = "resolved" /\ Len(allOp.promises) > 0)
    => \A i \in 1..Len(allOp.promises) :
          PromiseState(attempts, allOp.promises[i]).s = "resolved"

\* C33: provided every agent request eventually resolves or rejects, the
\* promise returned by all() eventually settles; it resolves only when every
\* page load succeeded, and it rejects when a page load fails, a first-page
\* load that was in flight when all() was called included.
C33_AllEventuallySettles ==
    /\ AllPending ~> AllSettled
    /\ []ResolvedOnlyOnSuccess
    /\ \A id \in AttemptIds : InFlightBeforeAll(id) ~> SettledWith(id)

\* The same, without the first-page load that was in flight.
C33_AllSettlesOnItsOwnLoads ==
    /\ AllPending ~> AllSettled
    /\ []ResolvedOnlyOnSuccess


\* A NotIn filter was applied.
NotInApplied ==
    /\ engineCall.fn = "applyFilter"
    /\ engineCall.filter.operator = "NotIn"
    /\ engineResult # NoResult
\* What the In filter with the same filter.value makes of the same value.
InOfTheSame == applyFilter([engineCall.filter EXCEPT !.operator = "In"], engineCall.val)

\* C34: for every resolved value and every filter.value, array or not, the
\* NotIn filter accepts the value exactly when the In filter with the same
\* filter.value rejects it.
C34_NotInIsComplementOfIn ==
    NotInApplied => (engineResult.returned /\ engineResult.value = ~InOfTheSame)

\* The same, for a filter.value that is an array.
C34_NotInIsComplementOfInForArrays ==
    (NotInApplied /\ isArray(engineCall.filter.value))
    => (engineResult.returned /\ engineResult.value = ~InOfTheSame)

====
